---- MODULE Spec2Model ----
(***************************************************************************)
(* cpa_websearch_proxy: credential store (AuthManager), access token cache *)
(* (TokenManager) and search executor (GeminiClient.ExecuteWebSearch).     *)
(*                                                                         *)
(* Time is counted in ticks of five minutes: the failure cooldown (300 s   *)
(* by default) and the token safety margin (5 * time.Minute) are one tick  *)
(* each.  A critical section of the credential store does no network I/O   *)
(* and completes within one tick; the token refresh holds its lock across  *)
(* an HTTP call, during which the clock may advance.                       *)
(***************************************************************************)
EXTENDS Integers, Sequences, FiniteSets, TLC

\* ---------------------------------------------------------------- bounds
MaxEntries == 2     \* credential files loaded at start-up
NumRequests == 2    \* concurrent inbound requests (goroutines)
MaxTime == 1        \* clock ticks the model lets pass under concurrent requests
MaxTimeSolo == 5    \* clock ticks the model lets pass under a single request
MaxFail == 2        \* FailCount up to which the store's callers go on marking

\* ------------------------------------------------------ program constants
FailCooldown == 1   \* DefaultAuthFailCooldown, 300 s
TokenBuffer == 1    \* 5 * time.Minute
maxRetries == 5     \* GeminiClient.maxRetries

Requests == 1..NumRequests

\* time.Time{}: the zero time lies more than a cooldown before start-up
ZeroTime == 0
StartTime == ZeroTime + FailCooldown + TokenBuffer

NoCred == 0 - 1
\* access_token strings the token endpoint may answer with ("" = field absent)
TokenVals == {"", "ta", "tb"}
\* expires_in values of a token response, in ticks (0 = field absent)
ExpiresInVals == {0, 2}
EmptyCache == [val |-> "", cred |-> NoCred]
\* a token handed to a caller, with the expiry the cache recorded for it
TokenOf(at, e) == [val |-> at.val, cred |-> at.cred, exp |-> e]
EmptyToken == TokenOf(EmptyCache, ZeroTime)

VARIABLES
    now,            \* wall clock (time.Now)
    env,            \* what the surroundings may do: horizon (last instant the clock
                    \* is followed to), vals and lifetimes (access_token and
                    \* expires_in values the token endpoint may answer with)
    entries,        \* AuthManager.entries: index -> [FailCount, LastFail]
    currentIndex,   \* AuthManager.currentIndex
    accessToken,    \* TokenManager.accessToken, with the credential it was minted for
    expiry,         \* TokenManager.expiry
    tmMu,           \* TokenManager.mu: 0 = free, r = write-locked by request r
    pc,             \* position of each request
    attempt,        \* loop variable of ExecuteWebSearch
    tok,            \* token returned to the request by GetAccessToken
    via,            \* how GetAccessToken produced tok: "fast", "recheck", "post"
    rt,             \* refresh secret (entry index) read by getRefreshToken
    lastErr,        \* lastErr of ExecuteWebSearch
    outcome,        \* what ExecuteWebSearch returned
    ncalls,         \* backend POSTs issued by the current ExecuteWebSearch call
    resp,           \* the backend's answer to the POST in flight
    marked,         \* entries the current ExecuteWebSearch call has marked failed
    amMu,           \* AuthManager.mu: 0 = free, r = write-locked by r
    startIndex,     \* startIndex of a MarkCurrentFailed in progress
    pre,            \* store and clock when a MarkCurrentFailed took the lock
    post,           \* store when that MarkCurrentFailed released the lock
    ret,            \* what that MarkCurrentFailed returned
    seen,           \* what the last GetCurrentRefreshToken of r read
    lin,            \* the store as the calls made so far leave it, one after the other
    inb,            \* the inbound HTTP request each goroutine serves
    fwd,            \* what ServeHTTP handed to pass-through, or answered itself
    gresp,          \* a backend response to convert, with what the network answers
                    \* for its redirect links
    reply,          \* what writeSSEResponse / writeNonStreamResponse wrote
    cache,          \* URLResolver.cache: redirect URL -> stored URL
    resolving,      \* the ResolveURLs call of each request and its goroutines
    messages,       \* the "messages" value of a client payload to transform
    contents,       \* what TransformMessages returned for it
    geminiAPIKey,   \* TokenManager.geminiAPIKey ("" in OAuth mode)
    sent,           \* the backend POST each request has in flight
    creds,          \* AuthManager.entries: index -> [FilePath, RefreshToken, ProjectID]
    files,          \* the credential files on disk: path -> parsed JSON
    loadErr         \* what the last LoadFromFile returned

vars == <<now, env, entries, currentIndex, accessToken, expiry, tmMu, pc, attempt,
          tok, via, rt, lastErr, outcome, ncalls, resp, marked,
          amMu, startIndex, pre, post, ret, seen, lin, inb, fwd,
          gresp, reply, cache, resolving, messages, contents, geminiAPIKey, sent,
          creds, files, loadErr>>

\* request transformer, auth mode and credential loader
asideVars == <<messages, contents, geminiAPIKey, creds, files, loadErr>>

\* the link resolver's variables, the above, and the POSTs in flight
sideVars == <<cache, resolving, asideVars, sent>>

\* the dispatcher's variables, which executor, cache and store never touch
pipeVars == <<inb, fwd, gresp, reply, sideVars>>

execVars == <<accessToken, expiry, tmMu, attempt, tok, via, rt, lastErr, outcome,
              ncalls, resp, marked, pipeVars>>
fineVars == <<amMu, startIndex, pre, post, ret, seen, lin, pipeVars>>
\* fineVars without the POSTs in flight
quietVars == <<amMu, startIndex, pre, post, ret, seen, lin, inb, fwd, gresp, reply,
               cache, resolving, asideVars>>

storeVars == <<entries, currentIndex>>
cacheVars == <<accessToken, expiry>>

Count == Cardinality(DOMAIN entries)

NoCall == [kind |-> "none"]
NoErr == [kind |-> "none"]
NoOutcome == [kind |-> "none"]

\* no TransformMessages call is followed
NoTransform == messages = NoCall /\ contents = NoCall

\* the entries are loaded (entry i holds refresh secret i and names no
\* project) and no LoadFromFile call is followed
NoLoad ==
    /\ creds = [i \in DOMAIN entries |->
                  [FilePath |-> i, RefreshToken |-> i, ProjectID |-> ""]]
    /\ files = <<>>
    /\ loadErr = NoErr

\* GEMINI_API_KEY is not set
OAuthMode == geminiAPIKey = ""

\* no POST to the backend is in flight
NoneSent == sent = [r \in Requests |-> NoCall]

\* ------------------------------------------------------------ error texts
RECURSIVE Digits(_)
\* fmt's %d: the decimal digits of n
Digits(n) == IF n < 10 THEN <<n>> ELSE Append(Digits(n \div 10), n % 10)

\* strings.Contains on digit strings
HasSub(s, p) ==
    \E i \in 1..(Len(s) - Len(p) + 1) : SubSeq(s, i, i + Len(p) - 1) = p

\* the numeric authKeywords of isAuthError: "401", "403"
HasAuthDigits(n) ==
    HasSub(Digits(n), <<4, 0, 1>>) \/ HasSub(Digits(n), <<4, 0, 3>>)

\* bodies the backend may answer with; bytes = len(body)
Bodies == {[id |-> "b1", bytes |-> 12], [id |-> "b2", bytes |-> 403]}

\* *AuthError, built by executeRequest for 401 and 403
AuthError(st, b) == [kind |-> "AuthError", status |-> st, bytes |-> b.bytes, kw |-> TRUE]
\* "gemini returned status %d (response_bytes=%d, response_sha256=%s)"
StatusError(st, b) == [kind |-> "status", status |-> st, bytes |-> b.bytes, kw |-> FALSE]
\* "gemini request failed: %w"; kw: the transport's text holds an auth keyword
TransportError(kw) == [kind |-> "transport", status |-> 0, bytes |-> 0, kw |-> kw]
\* "failed to get access token: %w"; kw: the refresh error's text holds an auth keyword
RefreshError(kw) == [kind |-> "refresh", status |-> 0, bytes |-> 0, kw |-> kw]

\* what executeRequest can return for a backend answer that is not 2xx
BackendErrors ==
    {AuthError(st, CHOOSE b \in Bodies : b.id = "b1") : st \in {401, 403}}
        \cup {StatusError(500, b) : b \in Bodies}
        \cup {TransportError(FALSE)}

\* what the backend may do with one POST: a 2xx with a body, or a failure
NoAnswer == [kind |-> "none"]
BackendAnswers ==
    {[kind |-> "ok", body |-> b] : b \in Bodies}
        \cup {[kind |-> "err", err |-> e] : e \in BackendErrors}

IsAuthErrorNoText(err) == err.kind = "AuthError"

\* isAuthError: the *AuthError type, else a keyword anywhere in err.Error()
isAuthError(err) ==
    \/ err.kind = "AuthError"
    \/ err.kind = "status" /\ (HasAuthDigits(err.status) \/ HasAuthDigits(err.bytes))
    \/ err.kind \in {"transport", "refresh"} /\ err.kw

\* ------------------------------------------------------- credential store
AvailableNoCooldown(e, t) == e.FailCount = 0

\* the availability test of MarkCurrentFailed's scan
Available(e, t) == e.FailCount = 0 \/ t - e.LastFail >= FailCooldown

MarkedAll(es, cur, t) ==
    [i \in DOMAIN es |-> [FailCount |-> es[i].FailCount + 1, LastFail |-> t]]

MarkedNoTimestamp(es, cur, t) == [es EXCEPT ![cur].FailCount = @ + 1]

\* entry.FailCount++; entry.LastFail = time.Now()
Marked(es, cur, t) == [es EXCEPT ![cur].FailCount = @ + 1, ![cur].LastFail = t]

\* MarkCurrentFailed as one critical section at instant t:
\* [entries, idx, ret] after the call
MarkCurrentFailedOp(es, cur, t) ==
    LET n == Cardinality(DOMAIN es)
        es1 == Marked(es, cur, t)
        RECURSIVE Scan(_)
        Scan(i) ==
            LET j == (i + 1) % n IN
            IF j = cur
                THEN [entries |-> es1, idx |-> j,
                      ret |-> (t - es1[cur].LastFail >= FailCooldown)]
                ELSE IF Available(es1[j], t)
                    THEN [entries |-> es1, idx |-> j, ret |-> TRUE]
                    ELSE Scan(j)
    IN Scan(cur)

ResetAlsoTimestamp(es, cur) == [es EXCEPT ![cur].FailCount = 0, ![cur].LastFail = ZeroTime]

\* ResetCurrentFailCount
ResetCurrentFailCountOp(es, cur) == [es EXCEPT ![cur].FailCount = 0]

\* ------------------------------------------------------------ token cache
TokenValidNoBuffer == accessToken.val # "" /\ now < expiry

\* tm.accessToken != "" && time.Now().Add(5*time.Minute).Before(tm.expiry)
TokenValid == accessToken.val # "" /\ now + TokenBuffer < expiry

RecheckSkipped == FALSE

\* refresh: the double-check after acquiring the write lock
RecheckValid == TokenValid

KeptToken(at) == at

\* InvalidateToken: tm.accessToken = ""
ClearedToken(at) == EmptyCache

\* ------------------------------------------------------- search executor
LoopOneMore(a) == a <= maxRetries + 1

\* the loop condition of ExecuteWebSearch: attempt <= gc.maxRetries
LoopContinues(a) == a <= maxRetries

ErrOutcome(why, err) == [kind |-> "err", why |-> why, err |-> err]
OkOutcome(b) == [kind |-> "ok", why |-> "", err |-> NoErr, body |-> b]

\* TokenManager.UseGeminiAPI
UseGeminiAPI == geminiAPIKey # ""

\* main: the AuthManager is created, and handed to TokenManager and
\* GeminiClient, only when the process does not use an API key
HasAuthManager == ~UseGeminiAPI

\* where executeRequest starts: GetAccessToken is called in OAuth mode only
AttemptEntry == IF UseGeminiAPI THEN "send" ELSE "get_token"

\* gc.model
WebSearchModel == "model"

\* AuthManager.GetCurrentProjectID
GetCurrentProjectID ==
    IF DOMAIN creds = {} THEN "" ELSE creds[currentIndex].ProjectID

\* generateProjectID: adjective-noun-random
generateProjectID == "adjective-noun-random"

\* buildGeminiAPIRequest: {"contents":[..],"tools":[{"googleSearch":{}}]}
buildGeminiAPIRequest ==
    [shape |-> "flat", contents |-> "contents", tools |-> "googleSearch"]

\* buildAntigravityRequest, for the n-th POST of request r:
\* {"model":..,"request":{"contents":[..],"tools":[..]},"userAgent":..,
\*  "project":..,"requestId":"agent-<uuid>"}
buildAntigravityRequest(r, n) ==
    [shape |-> "wrapped", model |-> WebSearchModel,
     contents |-> "contents", tools |-> "googleSearch",
     userAgent |-> "antigravity",
     project |-> IF HasAuthManager /\ GetCurrentProjectID # ""
                   THEN GetCurrentProjectID ELSE generateProjectID,
     requestId |-> <<"agent-", r, n>>]

AlwaysWrapped(r, n) == buildAntigravityRequest(r, n)

\* buildRequest: the envelope of the mode
buildRequest(r, n) ==
    IF UseGeminiAPI THEN buildGeminiAPIRequest ELSE buildAntigravityRequest(r, n)

\* executeRequest: URL, Authorization header and body of the POST
NewRequest(r, n) ==
    [kind |-> "post",
     url |-> IF UseGeminiAPI THEN [base |-> "geminiAPI", key |-> geminiAPIKey]
                             ELSE [base |-> "antigravity", key |-> ""],
     auth |-> IF UseGeminiAPI THEN <<>> ELSE <<"Bearer ", tok[r].val>>,
     body |-> buildRequest(r, n)]

\* executeRequest returned err: lastErr = err, then the isAuthError branch
FailAttempt(r, err) ==
    IF isAuthError(err)
        THEN /\ lastErr' = [lastErr EXCEPT ![r] = err]
             /\ pc' = [pc EXCEPT ![r] = "invalidate"]
             /\ UNCHANGED outcome
        ELSE /\ lastErr' = [lastErr EXCEPT ![r] = NoErr]
             /\ pc' = [pc EXCEPT ![r] = "done"]
             /\ outcome' = [outcome EXCEPT ![r] = ErrOutcome("non_auth", err)]

\* ExecuteWebSearch is entered with a non-empty payload
StartCall(r) ==
    /\ pc[r] = "idle"
    /\ pc' = [pc EXCEPT ![r] = AttemptEntry]
    /\ UNCHANGED <<fineVars, marked, resp, now, env, storeVars, cacheVars, tmMu, attempt, tok, via, rt,
                   lastErr, outcome, ncalls>>

\* GetAccessToken: the read under RLock
GetAccessToken(r) ==
    /\ pc[r] = "get_token"
    /\ tmMu = 0
    /\ IF TokenValid
         THEN /\ tok' = [tok EXCEPT ![r] = TokenOf(accessToken, expiry)]
              /\ via' = [via EXCEPT ![r] = "fast"]
              /\ pc' = [pc EXCEPT ![r] = "send"]
         ELSE /\ pc' = [pc EXCEPT ![r] = "refresh"]
              /\ UNCHANGED <<tok, via>>
    /\ UNCHANGED <<fineVars, marked, resp, now, env, storeVars, cacheVars, tmMu, attempt, rt, lastErr,
                   outcome, ncalls>>

\* refresh: Lock, double-check, getRefreshToken, and the POST is sent
RefreshLock(r) ==
    /\ pc[r] = "refresh"
    /\ tmMu = 0
    /\ IF RecheckValid
         THEN /\ tok' = [tok EXCEPT ![r] = TokenOf(accessToken, expiry)]
              /\ via' = [via EXCEPT ![r] = "recheck"]
              /\ pc' = [pc EXCEPT ![r] = "send"]
              /\ UNCHANGED <<tmMu, rt>>
         ELSE /\ tmMu' = r
              /\ rt' = [rt EXCEPT ![r] = currentIndex]
              /\ pc' = [pc EXCEPT ![r] = "posting"]
              /\ UNCHANGED <<tok, via>>
    /\ UNCHANGED <<fineVars, marked, resp, now, env, storeVars, cacheVars, attempt, lastErr, outcome, ncalls>>

\* refresh: the token endpoint answers 2xx without an error field
RefreshOK(r) ==
    /\ pc[r] = "posting"
    /\ \E v \in env.vals, e \in env.lifetimes :
         LET t == [val |-> v, cred |-> IF v = "" THEN NoCred ELSE rt[r]] IN
         /\ accessToken' = t
         /\ expiry' = now + e
         /\ tok' = [tok EXCEPT ![r] = TokenOf(t, now + e)]
    /\ via' = [via EXCEPT ![r] = "post"]
    /\ rt' = [rt EXCEPT ![r] = NoCred]
    /\ tmMu' = 0
    /\ pc' = [pc EXCEPT ![r] = "send"]
    /\ UNCHANGED <<fineVars, marked, resp, now, env, storeVars, attempt, lastErr, outcome, ncalls>>

\* refresh: transport error, unparsable body, error field or non-2xx status
RefreshFail(r) ==
    /\ pc[r] = "posting"
    /\ tmMu' = 0
    /\ \E kw \in BOOLEAN : FailAttempt(r, RefreshError(kw))
    /\ rt' = [rt EXCEPT ![r] = NoCred]
    /\ tok' = [tok EXCEPT ![r] = EmptyToken]
    /\ UNCHANGED <<fineVars, marked, resp, now, env, storeVars, cacheVars, attempt, via, ncalls>>

\* executeRequest: the envelope is built and the POST is sent to the backend
SendRequest(r) ==
    /\ pc[r] = "send"
    /\ ncalls' = [ncalls EXCEPT ![r] = @ + 1]
    /\ via' = [via EXCEPT ![r] = "none"]
    /\ \E a \in BackendAnswers : resp' = [resp EXCEPT ![r] = a]
    /\ sent' = [sent EXCEPT ![r] = NewRequest(r, ncalls[r] + 1)]
    /\ pc' = [pc EXCEPT ![r] = "wait"]
    /\ UNCHANGED <<quietVars, marked, now, env, storeVars, cacheVars, tmMu, attempt, tok, rt,
                   lastErr, outcome>>

\* 2xx: executeRequest returns the body; MarkAuthSuccess; return result
BackendSuccess(r) ==
    /\ pc[r] = "wait"
    /\ resp[r].kind = "ok"
    /\ outcome' = [outcome EXCEPT ![r] = OkOutcome(resp[r].body)]
    /\ resp' = [resp EXCEPT ![r] = NoAnswer]
    /\ sent' = [sent EXCEPT ![r] = NoCall]
    /\ entries' = IF HasAuthManager
                    THEN ResetCurrentFailCountOp(entries, currentIndex)
                    ELSE entries
    /\ lastErr' = [lastErr EXCEPT ![r] = NoErr]
    /\ pc' = [pc EXCEPT ![r] = "done"]
    /\ UNCHANGED <<quietVars, marked, now, env, currentIndex, cacheVars, tmMu, attempt, tok, via, rt,
                   ncalls>>

\* a status outside 2xx, or no response at all
BackendFailure(r) ==
    /\ pc[r] = "wait"
    /\ resp[r].kind = "err"
    /\ FailAttempt(r, resp[r].err)
    /\ resp' = [resp EXCEPT ![r] = NoAnswer]
    /\ sent' = [sent EXCEPT ![r] = NoCall]
    /\ UNCHANGED <<quietVars, marked, now, env, storeVars, cacheVars, tmMu, attempt, tok, via, rt, ncalls>>

\* MarkAuthFailed, first half: InvalidateToken
InvalidateToken(r) ==
    /\ pc[r] = "invalidate"
    /\ tmMu = 0
    /\ accessToken' = ClearedToken(accessToken)
    /\ expiry' = ZeroTime
    /\ pc' = [pc EXCEPT ![r] = "mark_failed"]
    /\ UNCHANGED <<fineVars, marked, resp, now, env, storeVars, tmMu, attempt, tok, via, rt, lastErr,
                   outcome, ncalls>>

\* MarkAuthFailed, second half: AuthManager.MarkCurrentFailed, then the loop
MarkCurrentFailed(r) ==
    /\ pc[r] = "mark_failed"
    /\ LET res == IF HasAuthManager
                    THEN MarkCurrentFailedOp(entries, currentIndex, now)
                    ELSE [entries |-> entries, idx |-> currentIndex, ret |-> FALSE]
       IN
       /\ entries' = res.entries
       /\ currentIndex' = res.idx
       /\ IF ~res.ret
            THEN /\ pc' = [pc EXCEPT ![r] = "done"]
                 /\ outcome' = [outcome EXCEPT ![r] = ErrOutcome("all_failed", lastErr[r])]
                 /\ lastErr' = [lastErr EXCEPT ![r] = NoErr]
                 /\ UNCHANGED attempt
            ELSE /\ attempt' = [attempt EXCEPT ![r] = @ + 1]
                 /\ IF LoopContinues(attempt[r] + 1)
                      THEN /\ pc' = [pc EXCEPT ![r] = AttemptEntry]
                           /\ UNCHANGED <<outcome, lastErr>>
                      ELSE /\ pc' = [pc EXCEPT ![r] = "done"]
                           /\ outcome' = [outcome EXCEPT ![r] =
                                             ErrOutcome("max_retries", lastErr[r])]
                           /\ lastErr' = [lastErr EXCEPT ![r] = NoErr]
    /\ marked' = [marked EXCEPT ![r] =
                      IF HasAuthManager THEN @ \cup {currentIndex} ELSE @]
    /\ UNCHANGED <<fineVars, resp, now, env, cacheVars, tmMu, tok, via, rt, ncalls>>

\* the clock advances
Tick ==
    /\ now < env.horizon
    /\ amMu = 0
    /\ now' = now + 1
    /\ UNCHANGED <<env, storeVars, execVars, fineVars, pc>>

\* nothing is in progress
InitIdle ==
    /\ currentIndex = 0
    /\ tmMu = 0
    /\ resp = [r \in Requests |-> NoAnswer]
    /\ marked = [r \in Requests |-> {}]
    /\ amMu = 0
    /\ startIndex = [r \in Requests |-> NoCred]
    /\ pre = [r \in Requests |-> NoCall]
    /\ post = [r \in Requests |-> NoCall]
    /\ ret = [r \in Requests |-> FALSE]
    /\ seen = [r \in Requests |-> NoCall]
    /\ lin = [entries |-> entries, idx |-> 0]
    /\ attempt = [r \in Requests |-> 0]
    /\ tok = [r \in Requests |-> EmptyToken]
    /\ via = [r \in Requests |-> "none"]
    /\ rt = [r \in Requests |-> NoCred]
    /\ lastErr = [r \in Requests |-> NoErr]
    /\ outcome = [r \in Requests |-> NoOutcome]
    /\ ncalls = [r \in Requests |-> 0]
    /\ fwd = [r \in Requests |-> NoCall]
    /\ reply = NoCall
    /\ cache = <<>>

\* after NewAuthManager, LoadFromDirectory and NewProxy
InitShared(maxN) ==
    /\ now = StartTime
    /\ \E n \in 1..maxN :
         entries = [i \in 0..(n - 1) |-> [FailCount |-> 0, LastFail |-> ZeroTime]]
    /\ InitIdle

\* NewTokenManager: no token cached
InitCache ==
    /\ accessToken = EmptyCache
    /\ expiry = ZeroTime

\* the process serves NumRequests requests, at any times
Init ==
    /\ InitShared(MaxEntries)
    /\ InitCache
    /\ env = [horizon |-> StartTime + MaxTime, vals |-> {"ta"}, lifetimes |-> {2}]
    /\ inb = [r \in Requests |-> NoCall]
    /\ gresp = NoCall
    /\ resolving = [r \in Requests |-> NoCall]
    /\ NoTransform /\ NoLoad /\ OAuthMode /\ NoneSent
    /\ pc = [r \in Requests |-> "idle"]

\* the process serves one request
InitSolo ==
    /\ InitShared(MaxEntries)
    /\ InitCache
    /\ env = [horizon |-> StartTime + MaxTimeSolo, vals |-> TokenVals,
              lifetimes |-> ExpiresInVals]
    /\ inb = [r \in Requests |-> NoCall]
    /\ gresp = NoCall
    /\ resolving = [r \in Requests |-> NoCall]
    /\ NoTransform /\ NoLoad /\ OAuthMode /\ NoneSent
    /\ pc = [r \in Requests |-> IF r = 1 THEN "idle" ELSE "off"]


\* ------------------------------------- credential store, lock by lock
AmNoLock == TRUE

\* am.mu.Lock() and am.mu.RLock() return: no writer holds the mutex
AmCanLock == amMu = 0

\* MarkCurrentFailed: Lock, entry := entries[currentIndex], FailCount++,
\* LastFail = time.Now(), startIndex := currentIndex
S_MarkLock(r) ==
    /\ pc[r] = "s_idle"
    /\ AmCanLock
    /\ entries[currentIndex].FailCount < MaxFail
    /\ amMu' = r
    /\ pre' = [pre EXCEPT ![r] = [kind |-> "mcf", entries |-> entries,
                                  idx |-> currentIndex, t |-> now]]
    /\ entries' = Marked(entries, currentIndex, now)
    /\ startIndex' = [startIndex EXCEPT ![r] = currentIndex]
    /\ lin' = LET res == MarkCurrentFailedOp(lin.entries, lin.idx, now)
              IN [entries |-> res.entries, idx |-> res.idx]
    /\ pc' = [pc EXCEPT ![r] = "s_scan"]
    /\ UNCHANGED <<now, env, currentIndex, execVars, post, ret, seen>>

NeverBack(j, start) == FALSE

\* MarkCurrentFailed: if am.currentIndex == startIndex
BackAtStart(j, start) == j = start

\* MarkCurrentFailed: one turn of the for loop, up to the return statement
S_Scan(r) ==
    /\ pc[r] = "s_scan"
    /\ LET j == (currentIndex + 1) % Count
           back == BackAtStart(j, startIndex[r])
           found == ~back /\ Available(entries[j], now)
       IN /\ currentIndex' = j
          /\ IF back \/ found
               THEN /\ ret' = [ret EXCEPT ![r] =
                          IF back
                            THEN now - entries[startIndex[r]].LastFail >= FailCooldown
                            ELSE TRUE]
                    /\ post' = [post EXCEPT ![r] = [kind |-> "mcf",
                                    entries |-> entries, idx |-> j]]
                    /\ pc' = [pc EXCEPT ![r] = "s_ret"]
               ELSE UNCHANGED <<ret, post, pc>>
    /\ UNCHANGED <<now, env, entries, execVars, amMu, startIndex, pre, seen, lin>>

\* a store call returns to its caller: the deferred Unlock of MarkCurrentFailed
\* runs, or the value GetCurrentRefreshToken read is handed over
S_Return(r) ==
    /\ pc[r] \in {"s_ret", "s_read"}
    /\ pc' = [pc EXCEPT ![r] = "s_idle"]
    /\ amMu' = IF pc[r] = "s_ret" /\ amMu = r THEN 0 ELSE amMu
    /\ pre' = [pre EXCEPT ![r] = NoCall]
    /\ post' = [post EXCEPT ![r] = NoCall]
    /\ ret' = [ret EXCEPT ![r] = FALSE]
    /\ seen' = [seen EXCEPT ![r] = NoCall]
    /\ startIndex' = [startIndex EXCEPT ![r] = NoCred]
    /\ UNCHANGED <<now, env, storeVars, execVars, lin>>

\* ResetCurrentFailCount: Lock, entries[currentIndex].FailCount = 0, Unlock
S_Reset(r) ==
    /\ pc[r] = "s_idle"
    /\ AmCanLock
    /\ entries' = ResetCurrentFailCountOp(entries, currentIndex)
    /\ lin' = [lin EXCEPT !.entries = ResetCurrentFailCountOp(lin.entries, lin.idx)]
    /\ UNCHANGED <<now, env, currentIndex, execVars, amMu, startIndex, pre, post,
                   ret, seen, pc>>

\* GetCurrentRefreshToken: RLock, entries[currentIndex].RefreshToken, RUnlock
S_Read(r) ==
    /\ pc[r] = "s_idle"
    /\ AmCanLock
    /\ seen' = [seen EXCEPT ![r] = [kind |-> "read", idx |-> currentIndex,
                                    lin |-> lin.idx]]
    /\ pc' = [pc EXCEPT ![r] = "s_read"]
    /\ UNCHANGED <<now, env, storeVars, execVars, amMu, startIndex, pre, post,
                   ret, lin>>

\* the store alone, with up to MaxEntries + 1 entries, under callers that fail,
\* succeed and read at any times
InitStore ==
    /\ InitShared(MaxEntries + 1)
    /\ InitCache
    /\ env = [horizon |-> StartTime + MaxTime, vals |-> {}, lifetimes |-> {}]
    /\ inb = [r \in Requests |-> NoCall]
    /\ gresp = NoCall
    /\ resolving = [r \in Requests |-> NoCall]
    /\ NoTransform /\ NoLoad /\ OAuthMode /\ NoneSent
    /\ pc = [r \in Requests |-> "s_idle"]

NextStore ==
    \/ Tick
    \/ \E r \in Requests :
         \/ S_MarkLock(r)
         \/ S_Scan(r)
         \/ S_Return(r)
         \/ S_Reset(r)
         \/ S_Read(r)

SpecStore == InitStore /\ [][NextStore]_vars

\* ------------------------- one call of ExecuteWebSearch, the scan step by step
\* MarkAuthFailed, second half: MarkCurrentFailed takes the lock, marks the
\* current entry and sets startIndex
MarkCurrentFailedLock(r) ==
    /\ pc[r] = "mark_failed"
    /\ HasAuthManager
    /\ AmCanLock
    /\ amMu' = r
    /\ pre' = [pre EXCEPT ![r] = [kind |-> "mcf", entries |-> entries,
                                  idx |-> currentIndex, t |-> now]]
    /\ entries' = Marked(entries, currentIndex, now)
    /\ startIndex' = [startIndex EXCEPT ![r] = currentIndex]
    /\ marked' = [marked EXCEPT ![r] = @ \cup {currentIndex}]
    /\ pc' = [pc EXCEPT ![r] = "s_scan"]
    /\ UNCHANGED <<now, env, currentIndex, cacheVars, tmMu, attempt, tok, via, rt,
                   lastErr, outcome, ncalls, resp, post, ret, seen, lin, pipeVars>>

\* MarkCurrentFailed returns (deferred Unlock); ExecuteWebSearch gives up on
\* false, else continues with the next attempt while the loop condition holds
MarkCurrentFailedReturn(r) ==
    /\ pc[r] = "s_ret"
    /\ amMu' = 0
    /\ IF ~ret[r]
         THEN /\ pc' = [pc EXCEPT ![r] = "done"]
              /\ outcome' = [outcome EXCEPT ![r] = ErrOutcome("all_failed", lastErr[r])]
              /\ lastErr' = [lastErr EXCEPT ![r] = NoErr]
              /\ UNCHANGED attempt
         ELSE /\ attempt' = [attempt EXCEPT ![r] = @ + 1]
              /\ IF LoopContinues(attempt[r] + 1)
                   THEN /\ pc' = [pc EXCEPT ![r] = AttemptEntry]
                        /\ UNCHANGED <<outcome, lastErr>>
                   ELSE /\ pc' = [pc EXCEPT ![r] = "done"]
                        /\ outcome' = [outcome EXCEPT ![r] =
                                          ErrOutcome("max_retries", lastErr[r])]
                        /\ lastErr' = [lastErr EXCEPT ![r] = NoErr]
    /\ pre' = [pre EXCEPT ![r] = NoCall]
    /\ post' = [post EXCEPT ![r] = NoCall]
    /\ ret' = [ret EXCEPT ![r] = FALSE]
    /\ startIndex' = [startIndex EXCEPT ![r] = NoCred]
    /\ UNCHANGED <<now, env, storeVars, cacheVars, tmMu, tok, via, rt, ncalls, resp,
                   marked, seen, lin, pipeVars>>

\* the process serves one request; the clock may stand still
InitRetry ==
    /\ InitShared(MaxEntries)
    /\ InitCache
    /\ env = [horizon |-> StartTime + MaxTime, vals |-> TokenVals,
              lifetimes |-> ExpiresInVals]
    /\ inb = [r \in Requests |-> NoCall]
    /\ gresp = NoCall
    /\ resolving = [r \in Requests |-> NoCall]
    /\ NoTransform /\ NoLoad /\ OAuthMode /\ NoneSent
    /\ pc = [r \in Requests |-> IF r = 1 THEN "idle" ELSE "off"]

\* the steps of the goroutine that serves the request
StepsOfCall ==
    \E r \in Requests :
         \/ StartCall(r)
         \/ GetAccessToken(r)
         \/ RefreshLock(r)
         \/ RefreshOK(r)
         \/ RefreshFail(r)
         \/ SendRequest(r)
         \/ BackendSuccess(r)
         \/ BackendFailure(r)
         \/ InvalidateToken(r)
         \/ MarkCurrentFailedLock(r)
         \/ S_Scan(r)
         \/ MarkCurrentFailedReturn(r)

NextRetry == Tick \/ StepsOfCall

\* the goroutine keeps running, its locks are free and both HTTP clients time
\* out; nothing makes the clock advance
SpecRetry == InitRetry /\ [][NextRetry]_vars /\ WF_vars(StepsOfCall)

\* ----------------------------------- token cache under concurrent callers
\* NumRequests callers are inside GetAccessToken at once; the cached token is
\* absent, or present but within the safety margin of its expiry
InitToken ==
    /\ InitShared(MaxEntries)
    /\ \/ InitCache
       \/ /\ accessToken = [val |-> "ta", cred |-> 0]
          /\ expiry \in {StartTime, StartTime + TokenBuffer}
    /\ env = [horizon |-> StartTime + MaxTime, vals |-> TokenVals,
              lifetimes |-> ExpiresInVals]
    /\ inb = [r \in Requests |-> NoCall]
    /\ gresp = NoCall
    /\ resolving = [r \in Requests |-> NoCall]
    /\ NoTransform /\ NoLoad /\ OAuthMode /\ NoneSent
    /\ pc = [r \in Requests |-> "get_token"]

NextToken ==
    \/ Tick
    \/ \E r \in Requests :
         \/ GetAccessToken(r)
         \/ RefreshLock(r)
         \/ RefreshOK(r)
         \/ RefreshFail(r)

SpecToken == InitToken /\ [][NextToken]_vars

Next ==
    \/ Tick
    \/ \E r \in Requests :
         \/ StartCall(r)
         \/ GetAccessToken(r)
         \/ RefreshLock(r)
         \/ RefreshOK(r)
         \/ RefreshFail(r)
         \/ SendRequest(r)
         \/ BackendSuccess(r)
         \/ BackendFailure(r)
         \/ InvalidateToken(r)
         \/ MarkCurrentFailed(r)

Spec == Init /\ [][Next]_vars

SpecSolo == InitSolo /\ [][Next]_vars

\* project identifiers a credential file may name ("" = none)
ProjectIDs == {"", "pa"}

\* the process serves one request, with GEMINI_API_KEY set or with loaded
\* credentials that may name a project
InitModes ==
    /\ InitShared(MaxEntries)
    /\ InitCache
    /\ env = [horizon |-> StartTime + MaxTime, vals |-> TokenVals, lifetimes |-> {2}]
    /\ inb = [r \in Requests |-> NoCall]
    /\ gresp = NoCall
    /\ resolving = [r \in Requests |-> NoCall]
    /\ NoTransform /\ NoneSent
    /\ files = <<>> /\ loadErr = NoErr
    /\ geminiAPIKey \in {"", "key"}
    /\ \E ps \in [DOMAIN entries -> ProjectIDs] :
         /\ UseGeminiAPI => \A i \in DOMAIN entries : ps[i] = ""
         /\ creds = [i \in DOMAIN entries |->
                       [FilePath |-> i, RefreshToken |-> i, ProjectID |-> ps[i]]]
    /\ pc = [r \in Requests |-> IF r = 1 THEN "idle" ELSE "off"]

SpecModes == InitModes /\ [][Next]_vars

\* the project a credential file names
ProjectOf(i) == <<"project", i>>

\* concurrent requests; every loaded credential names its own project
InitProjects ==
    /\ InitShared(MaxEntries)
    /\ InitCache
    /\ env = [horizon |-> StartTime + MaxTime, vals |-> {"ta"}, lifetimes |-> {2}]
    /\ inb = [r \in Requests |-> NoCall]
    /\ gresp = NoCall
    /\ resolving = [r \in Requests |-> NoCall]
    /\ NoTransform /\ OAuthMode /\ NoneSent
    /\ files = <<>> /\ loadErr = NoErr
    /\ creds = [i \in DOMAIN entries |->
                  [FilePath |-> i, RefreshToken |-> i, ProjectID |-> ProjectOf(i)]]
    /\ pc = [r \in Requests |-> "idle"]

SpecProjects == InitProjects /\ [][Next]_vars


\* ------------------------------------------------------------- dispatcher
\* Strings are sequences of symbols.  In a path "/" is the slash, "m" stands
\* for the letters "messages" and "v" for any other segment text; in a model
\* name "c","l" spell "claude", "C","L" the same letters in upper case and "x"
\* is any other text; in a tool type "w","s" spell "web_search", "_" is a
\* version suffix and "x" any other text.
MaxTools == 2       \* entries of a tools array

RECURSIVE TrimRight(_, _)
\* strings.TrimRight(s, cutset) for a one-character cutset
TrimRight(str, c) ==
    IF str # <<>> /\ str[Len(str)] = c
        THEN TrimRight(SubSeq(str, 1, Len(str) - 1), c)
        ELSE str

\* strings.HasSuffix
HasSuffix(str, suf) ==
    Len(str) >= Len(suf) /\ SubSeq(str, Len(str) - Len(suf) + 1, Len(str)) = suf

\* strings.HasPrefix
HasPrefix(str, pre_) ==
    Len(str) >= Len(pre_) /\ SubSeq(str, 1, Len(pre_)) = pre_

\* strings.ToLower
ToLower(str) ==
    [i \in 1..Len(str) |->
        IF str[i] = "C" THEN "c" ELSE IF str[i] = "L" THEN "l" ELSE str[i]]

MessagesSuffix == <<"/", "m">>
ClaudeMarker == <<"c", "l">>
WebSearchPrefix == <<"w", "s">>
\* "claude-3-5-sonnet-20241022"
DefaultModel == <<"c", "l", "x">>

GetModelRaw(body) == body.model

\* GetModel: the payload's model, or the default when it is absent or empty
GetModel(body) == IF body.model = <<>> THEN DefaultModel ELSE body.model

\* IsClaudeModel
IsClaudeModel(model) == HasSub(ToLower(model), ClaudeMarker)

HasWebSearchToolAnywhere(body) ==
    /\ body.tools.isArray
    /\ \E i \in 1..Len(body.tools.items) : HasSub(body.tools.items[i], WebSearchPrefix)

\* HasWebSearchTool
HasWebSearchTool(body) ==
    /\ body.tools.isArray
    /\ \E i \in 1..Len(body.tools.items) :
          HasPrefix(body.tools.items[i], WebSearchPrefix)

\* inputs: URL paths, model names, tool types, tools fields, payloads
Paths ==
    {<<"/", "v", "/", "m">>, <<"/", "m">>, <<"/", "v", "/", "m", "/">>,
     <<"/", "v", "/", "m", "/", "/">>, <<"/", "v", "m">>, <<"/", "m", "/", "v">>,
     <<"/">>, <<"/", "v">>}
ModelNames ==
    {<<>>, <<"c", "l">>, <<"x", "c", "l">>, <<"C", "L">>, <<"c", "x", "l">>,
     <<"x">>, <<"l", "c">>}
ToolTypes ==
    {<<"w", "s">>, <<"w", "s", "_">>, <<"x", "w", "s">>, <<"w">>, <<"x">>, <<>>}
ToolsFields ==
    {[isArray |-> FALSE, items |-> <<>>]}
        \cup {[isArray |-> TRUE, items |-> t] :
                t \in UNION {[1..n -> ToolTypes] : n \in 0..MaxTools}}
Payloads == [model : ModelNames, tools : ToolsFields]
\* an inbound request; readErr is what io.ReadAll under MaxBytesReader returns
Inbound ==
    [method : {"POST", "GET"}, path : Paths, body : Payloads,
     readErr : {"none", "too_large", "other"}, upstream : BOOLEAN]

\* the request goes to proxyOrReject with the body it came with
PassThrough(r) ==
    /\ pc' = [pc EXCEPT ![r] = "passthrough"]
    /\ fwd' = [fwd EXCEPT ![r] = [kind |-> "proxy", body |-> inb[r].body]]
    /\ UNCHANGED inb

\* Proxy.ServeHTTP up to the call of proxyOrReject or handleWebSearch
ServeHTTP(r) ==
    /\ pc[r] = "inbound"
    /\ LET q == inb[r]
           path == TrimRight(q.path, "/")
       IN IF q.method # "POST" \/ ~HasSuffix(path, MessagesSuffix)
            THEN PassThrough(r)
            ELSE IF q.readErr # "none"
              THEN /\ pc' = [pc EXCEPT ![r] = "rejected"]
                   /\ fwd' = [fwd EXCEPT ![r] = [kind |-> "status",
                                code |-> IF q.readErr = "too_large" THEN 413 ELSE 400]]
                   /\ UNCHANGED inb
              ELSE IF ~IsClaudeModel(GetModel(q.body)) \/ ~HasWebSearchTool(q.body)
                THEN PassThrough(r)
                ELSE /\ pc' = [pc EXCEPT ![r] = "idle"]
                     /\ fwd' = [fwd EXCEPT ![r] = [kind |-> "search",
                                                   model |-> GetModel(q.body)]]
                     \* handleWebSearch goes on with the body and the model
                     \* only; the executor treats the body as opaque
                     /\ inb' = [inb EXCEPT ![r] = NoCall]
    /\ UNCHANGED <<now, env, storeVars, cacheVars, tmMu, attempt, tok, via, rt, lastErr,
                   outcome, ncalls, resp, marked, amMu, startIndex, pre, post, ret,
                   seen, lin, gresp, reply, sideVars>>

\* proxyOrReject: the reverse proxy forwards, or 502 without an upstream
ProxyOrReject(r) ==
    /\ pc[r] = "passthrough"
    /\ pc' = [pc EXCEPT ![r] = IF inb[r].upstream THEN "forwarded" ELSE "rejected"]
    /\ fwd' = [fwd EXCEPT ![r] =
                 IF inb[r].upstream THEN [kind |-> "upstream", body |-> fwd[r].body]
                                     ELSE [kind |-> "status", code |-> 502]]
    /\ UNCHANGED <<now, env, storeVars, cacheVars, tmMu, attempt, tok, via, rt, lastErr,
                   outcome, ncalls, resp, marked, amMu, startIndex, pre, post, ret,
                   seen, lin, inb, gresp, reply, sideVars>>

\* the gateway serves one inbound request of any shape, within one instant
InitGateway ==
    /\ InitShared(MaxEntries)
    /\ InitCache
    /\ env = [horizon |-> StartTime, vals |-> {"ta"}, lifetimes |-> {2}]
    /\ \E q \in Inbound : inb = [r \in Requests |-> IF r = 1 THEN q ELSE NoCall]
    /\ gresp = NoCall
    /\ resolving = [r \in Requests |-> NoCall]
    /\ NoTransform /\ NoLoad /\ OAuthMode /\ NoneSent
    /\ pc = [r \in Requests |-> IF r = 1 THEN "inbound" ELSE "off"]

NextGateway ==
    \E r \in Requests :
        \/ ServeHTTP(r)
        \/ ProxyOrReject(r)
        \/ StartCall(r)
        \/ GetAccessToken(r)
        \/ RefreshLock(r)
        \/ RefreshOK(r)
        \/ RefreshFail(r)
        \/ SendRequest(r)
        \/ BackendSuccess(r)
        \/ BackendFailure(r)
        \/ InvalidateToken(r)
        \/ MarkCurrentFailed(r)

SpecGateway == InitGateway /\ [][NextGateway]_vars

\* ---------------------------------------------------- response synthesizer
\* A URL is a sequence of symbols: "V" stands for the Vertex redirect prefix,
\* "h" for any other scheme and host, and the rest tells pages apart.
MaxChunks == 2      \* groundingChunks of a backend response
MaxSupports == 2    \* groundingSupports of a backend response

maxParallelResolves == 10
vertexRedirectPrefix == <<"V">>

AnyURL(url) == TRUE

\* isVertexRedirectURL
isVertexRedirectURL(url) == HasPrefix(url, vertexRedirectPrefix)

doResolveOrEmpty(url, ans) == ans

\* doResolve: the final URL of the HEAD or GET exchange when there is one,
\* the original URL on any failure; ans = <<>> is a failed exchange
doResolve(url, ans) == IF ans # <<>> THEN ans ELSE url

\* ResolveURL (with an empty cache)
ResolveURL(url, ans) == IF ~isVertexRedirectURL(url) THEN url ELSE doResolve(url, ans)

\* ResolveURLs: only the first maxParallelResolves URLs are resolved
ResolveURLs(urls, answers) ==
    [i \in 1..Len(urls) |->
        IF i <= maxParallelResolves THEN ResolveURL(urls[i], answers[i]) ELSE urls[i]]

\* generateEncryptedContent: base64 of the JSON object {"url":..,"title":..}
generateEncryptedContent(url, title) ==
    <<"base64", <<"url", url>>, <<"title", title>>>>

RECURSIVE WebChunks(_)
\* the chunks of a groundingChunks array that have a "web" member, in order
WebChunks(chunks) ==
    IF chunks = <<>> THEN <<>>
    ELSE IF chunks[1].web THEN <<chunks[1]>> \o WebChunks(Tail(chunks))
                          ELSE WebChunks(Tail(chunks))

\* extractWebSearchResultsInternal (an absent title or uri reads as "")
extractWebSearchResultsInternal(gm) ==
    IF ~gm.chunks.isArray THEN <<>>
    ELSE LET w == WebChunks(gm.chunks.items) IN
         [i \in 1..Len(w) |->
            [type |-> "web_search_result", title |-> w[i].title, url |-> w[i].uri,
             encrypted_content |-> generateEncryptedContent(w[i].uri, w[i].title)]]

\* what the network answers for the link of each result, in result order
Answers(gm) ==
    IF ~gm.chunks.isArray THEN <<>>
    ELSE LET w == WebChunks(gm.chunks.items) IN [i \in 1..Len(w) |-> w[i].target]

KeepEncryptedContent(result, url) == result.encrypted_content

\* extractWebSearchResultsWithResolve: the blob is regenerated from the URL
\* the result ends up with
RegenerateEncryptedContent(result, url) == generateEncryptedContent(url, result.title)

\* extractWebSearchResultsWithResolve
extractWebSearchResultsWithResolve(gm) ==
    LET results == extractWebSearchResultsInternal(gm)
        urls == [i \in 1..Len(results) |-> results[i].url]
        resolvedURLs == ResolveURLs(urls, Answers(gm))
    IN [i \in 1..Len(results) |->
          LET url == IF resolvedURLs[i] # <<>> /\ resolvedURLs[i] # urls[i]
                       THEN resolvedURLs[i] ELSE results[i].url
          IN [results[i] EXCEPT
                !.url = url,
                !.encrypted_content = RegenerateEncryptedContent(results[i], url)]]

Nil == [type |-> "nil"]

\* the base64 of the JSON object {"url":..,"title":..,"cited_text":..}
EncryptedIndex(url, title, citedText) ==
    <<"base64", <<"url", url>>, <<"title", title>>, <<"cited_text", citedText>>>>

LastIndex(indices) == indices[Len(indices)]

\* buildCitation: indices[0] alone picks the result
FirstIndex(indices) == indices[1]

UrlNeverMissing(url) == FALSE

\* buildCitation: a URL is required
UrlMissing(url) == url = <<>>

\* buildCitation
buildCitation(support, results) ==
    IF support.text = <<>> THEN Nil
    ELSE IF Len(support.indices) = 0 THEN Nil
    ELSE LET idx == FirstIndex(support.indices) IN
         IF idx < 0 \/ idx >= Len(results) THEN Nil
         ELSE LET result == results[idx + 1] IN
              IF UrlMissing(result.url) THEN Nil
              ELSE [type |-> "web_search_result_location",
                    cited_text |-> support.text,
                    url |-> result.url,
                    title |-> result.title,
                    encrypted_index |->
                        EncryptedIndex(result.url, result.title, support.text)]

RECURSIVE CitationsOf(_, _)
\* the loop shared by buildCitationTextBlocks and buildCitationsForSSE
CitationsOf(items, results) ==
    IF items = <<>> THEN <<>>
    ELSE LET citation == buildCitation(items[1], results) IN
         IF citation = Nil THEN CitationsOf(Tail(items), results)
         ELSE <<citation>> \o CitationsOf(Tail(items), results)

\* buildCitationsForSSE
buildCitationsForSSE(supports, results) ==
    IF ~supports.isArray THEN <<>> ELSE CitationsOf(supports.items, results)

\* buildCitationTextBlocks
buildCitationTextBlocks(supports, results) ==
    IF ~supports.isArray THEN <<>>
    ELSE LET cs == CitationsOf(supports.items, results) IN
         [i \in 1..Len(cs) |-> [type |-> "text", text |-> <<>>, citations |-> <<cs[i]>>]]

\* getUsageField: the wrapped value, the top-level one when that is 0
getUsageField(u) == IF u.wrapped = 0 THEN u.top ELSE u.wrapped

SearchQueryLast(g) == IF g.queries.isArray /\ Len(g.queries.items) > 0
                        THEN g.queries.items[Len(g.queries.items)] ELSE <<>>

\* the search query both converters put in the tool invocation
SearchQuery(g) == IF g.queries.isArray /\ Len(g.queries.items) > 0
                    THEN g.queries.items[1] ELSE <<>>

\* ConvertToClaudeNonStream: the query is always set
InputAlways(searchQuery) == {<<"query", searchQuery>>}

\* ConvertToClaudeSSEStream: input_json_delta only for a non-empty query
InputDelta(index, searchQuery) ==
    IF searchQuery # <<>>
      THEN << [event |-> "content_block_delta", index |-> index,
               delta |-> [type |-> "input_json_delta",
                          partial_json |-> {<<"query", searchQuery>>}]] >>
      ELSE <<>>

\* ConvertToClaudeNonStream; the message and tool-use ids are left out
ConvertToClaudeNonStream(g) ==
    LET searchQuery == SearchQuery(g)
        webSearchResults == extractWebSearchResultsWithResolve(g)
        citationBlocks == buildCitationTextBlocks(g.supports, webSearchResults)
        textBlock == IF g.text # <<>> THEN << [type |-> "text", text |-> g.text] >>
                                      ELSE <<>>
    IN [type |-> "message",
        role |-> "assistant",
        content |->
            << [type |-> "server_tool_use", name |-> "web_search",
                input |-> InputAlways(searchQuery)],
               [type |-> "web_search_tool_result", content |-> webSearchResults] >>
            \o citationBlocks \o textBlock,
        stop_reason |-> "end_turn",
        usage |-> [input_tokens |-> getUsageField(g.promptTokenCount),
                   output_tokens |-> getUsageField(g.candidatesTokenCount),
                   web_search_requests |-> 1]]

\* A text is a sequence of UTF-8 bytes: "a" is a one-byte code point, "L" the
\* lead byte and "c" the continuation byte of a two-byte code point.
chunkSize == 50

\* the units the text is cut in, were it cut by bytes
Bytes(text) == [i \in 1..Len(text) |-> <<text[i]>>]

RECURSIVE Runes(_)
\* []rune(text): the code points of a text, each with its bytes; the text
\* is decoded half by half, the halves meeting where a code point starts
Runes(text) ==
    IF text = <<>> THEN <<>>
    ELSE IF Len(text) = 1 \/ (Len(text) = 2 /\ text[1] = "L") THEN <<text>>
    ELSE LET half == Len(text) \div 2
             cut == IF text[half + 1] = "c" THEN half + 1 ELSE half
         IN Runes(SubSeq(text, 1, cut)) \o Runes(SubSeq(text, cut + 1, Len(text)))

RECURSIVE Encode(_)
\* string(runes): the bytes of a run of code points, half by half
Encode(runes) ==
    IF runes = <<>> THEN <<>>
    ELSE IF Len(runes) = 1 THEN runes[1]
    ELSE LET half == Len(runes) \div 2
         IN Encode(SubSeq(runes, 1, half)) \o Encode(SubSeq(runes, half + 1, Len(runes)))

Min(a, b) == IF a < b THEN a ELSE b

RECURSIVE TextDeltas(_, _, _)
\* ConvertToClaudeSSEStream, the loop over runes[i:end], i counted from 0
TextDeltas(runes, i, index) ==
    IF i >= Len(runes) THEN <<>>
    ELSE LET end == Min(i + chunkSize, Len(runes))
             chunk == Encode(SubSeq(runes, i + 1, end))
         IN << [event |-> "content_block_delta", index |-> index,
                delta |-> [type |-> "text_delta", text |-> chunk]] >>
            \o TextDeltas(runes, i + chunkSize, index)

BlockStart(index, block) ==
    [event |-> "content_block_start", index |-> index, content_block |-> block]

BlockStop(index) == [event |-> "content_block_stop", index |-> index]

CitationEventsUnclosed(citation, index) ==
    << BlockStart(index, [type |-> "text", text |-> <<>>, citations |-> <<>>]),
       [event |-> "content_block_delta", index |-> index,
        delta |-> [type |-> "citations_delta", citation |-> citation]] >>

\* ConvertToClaudeSSEStream, one citation block: start, citations_delta, stop
CitationEvents(citation, index) ==
    << BlockStart(index, [type |-> "text", text |-> <<>>, citations |-> <<>>]),
       [event |-> "content_block_delta", index |-> index,
        delta |-> [type |-> "citations_delta", citation |-> citation]],
       BlockStop(index) >>

RECURSIVE CitationBlocks(_, _)
\* ConvertToClaudeSSEStream, the loop over citations with contentIndex++
CitationBlocks(citations, index) ==
    IF citations = <<>> THEN <<>>
    ELSE CitationEvents(citations[1], index)
            \o CitationBlocks(Tail(citations), index + 1)

\* ConvertToClaudeSSEStream, the text block
TextEvents(text, index) ==
    IF text # <<>>
      THEN << BlockStart(index, [type |-> "text", text |-> <<>>]) >>
            \o TextDeltas(Runes(text), 0, index)
            \o << BlockStop(index) >>
      ELSE <<>>

\* ConvertToClaudeSSEStream; the message and tool-use ids are left out
ConvertToClaudeSSEStream(g) ==
    LET inputTokens == getUsageField(g.promptTokenCount)
        outputTokens == getUsageField(g.candidatesTokenCount)
        searchQuery == SearchQuery(g)
        webSearchResults == extractWebSearchResultsWithResolve(g)
        citations == buildCitationsForSSE(g.supports, webSearchResults)
    IN << [event |-> "message_start", role |-> "assistant",
           usage |-> [input_tokens |-> inputTokens, output_tokens |-> 0]] >>
       \o << BlockStart(0, [type |-> "server_tool_use", name |-> "web_search",
                            input |-> {}]) >>
       \o InputDelta(0, searchQuery)
       \o << BlockStop(0) >>
       \o << BlockStart(1, [type |-> "web_search_tool_result",
                            content |-> webSearchResults]),
             BlockStop(1) >>
       \o CitationBlocks(citations, 2)
       \o TextEvents(g.text, 2 + Len(citations))
       \o << [event |-> "message_delta", stop_reason |-> "end_turn",
              usage |-> [input_tokens |-> inputTokens,
                         output_tokens |-> outputTokens,
                         web_search_requests |-> 1]],
             [event |-> "message_stop"] >>

\* ------------------------------------------------- backend responses to convert
MaxWindows == 2     \* answer texts run to MaxWindows windows and one code point

Ascii(n) == [i \in 1..n |-> "a"]

\* n code points, the k-th of them two bytes wide
WithWide(n, k) == Ascii(k - 1) \o <<"L", "c">> \o Ascii(n - k)

TextLens == {0, 1, 2}
            \cup {n \in {w * chunkSize + d : w \in 1..MaxWindows, d \in {-1, 0, 1}} : n > 0}

Texts == {Ascii(n) : n \in TextLens}
         \cup {WithWide(n, k) : n \in {m \in TextLens : m >= chunkSize},
                                k \in {1, chunkSize}}

Page == <<"h", "p">>
Redirect == <<"V", "p">>
Landing == <<"h", "q">>
Title == <<"t">>

\* a grounding chunk: has it a "web" member, its uri and title (either may
\* be missing, which reads as empty), and what the
\* network answers for the uri (<<>>: no answer)
Chunks ==
    { [web |-> FALSE, uri |-> Page, title |-> Title, target |-> <<>>],
      [web |-> TRUE, uri |-> Page, title |-> Title, target |-> <<>>],
      [web |-> TRUE, uri |-> <<>>, title |-> Title, target |-> <<>>],
      [web |-> TRUE, uri |-> Redirect, title |-> Title, target |-> <<>>],
      [web |-> TRUE, uri |-> Redirect, title |-> Title, target |-> Landing] }

\* a grounding support: segment.text and groundingChunkIndices
Supports ==
    { [text |-> <<"s", "0">>, indices |-> <<0>>],
      [text |-> <<"s", "1">>, indices |-> <<1, 0>>],
      [text |-> <<>>, indices |-> <<0>>],
      [text |-> <<"s", "n">>, indices |-> <<>>],
      [text |-> <<"s", "h">>, indices |-> <<MaxChunks, 0>>],
      [text |-> <<"s", "l">>, indices |-> <<-1, 0>>] }

\* the lists of up to n members of S
SeqsUpToAny(S, n) == UNION {[1..k -> S] : k \in 0..n}

\* the lists of up to n different members of S
SeqsUpTo(S, n) ==
    UNION { {q \in [1..k -> S] : \A i, j \in 1..k : i # j => q[i] # q[j]} : k \in 0..n }

Arrays(S, n) == {[isArray |-> FALSE, items |-> <<>>]}
                \cup {[isArray |-> TRUE, items |-> q] : q \in SeqsUpTo(S, n)}

Queries == { [isArray |-> FALSE, items |-> <<>>],
             [isArray |-> TRUE, items |-> <<>>],
             [isArray |-> TRUE, items |-> << <<"q", "1">>, <<"q", "2">> >>] }

Usages == { [promptTokenCount |-> [wrapped |-> 0, top |-> 0],
             candidatesTokenCount |-> [wrapped |-> 0, top |-> 0]],
            [promptTokenCount |-> [wrapped |-> 7, top |-> 0],
             candidatesTokenCount |-> [wrapped |-> 0, top |-> 9]] }

GeminiResponse(text, queries, chunks, supports, usage) ==
    [text |-> text, queries |-> queries, chunks |-> chunks, supports |-> supports,
     promptTokenCount |-> usage.promptTokenCount,
     candidatesTokenCount |-> usage.candidatesTokenCount]

\* responses with every shape of grounding and a short answer, or none
GroundedResponses ==
    { GeminiResponse(t, q, c, s, u) :
        t \in {<<>>, Ascii(2)}, q \in {qq \in Queries : qq.items # <<>> \/ ~qq.isArray},
        c \in Arrays(Chunks, MaxChunks), s \in Arrays(Supports, MaxSupports),
        u \in {uu \in Usages : uu.promptTokenCount.wrapped # 0} }

\* responses with every answer text and one piece of grounding
WordyResponses ==
    { GeminiResponse(t, q, [isArray |-> TRUE, items |-> <<c>>],
                     [isArray |-> TRUE, items |-> <<s>>], u) :
        t \in Texts, q \in {qq \in Queries : qq.isArray},
        c \in {cc \in Chunks : cc.web /\ cc.uri = Page},
        s \in {ss \in Supports : ss.indices = <<0>> /\ ss.text # <<>>},
        u \in Usages }

\* responses whose first grounding chunk has no "web" member and is followed
\* by two that have one
GappedResponses ==
    { GeminiResponse(Ascii(2), q, [isArray |-> TRUE, items |-> <<c0, c1, c2>>],
                     [isArray |-> TRUE, items |-> <<s>>], u) :
        q \in {qq \in Queries : qq.items # <<>>},
        c0 \in {cc \in Chunks : ~cc.web},
        c1 \in {cc \in Chunks : cc.web}, c2 \in {cc \in Chunks : cc.web /\ cc.uri # <<>>},
        s \in Supports,
        u \in {uu \in Usages : uu.promptTokenCount.wrapped # 0} }

\* handleWebSearch for a request whose body has "stream": true;
\* writeSSEResponse writes every event, in order
writeSSEResponse ==
    /\ gresp # NoCall
    /\ reply = NoCall
    /\ reply' = [kind |-> "sse", events |-> ConvertToClaudeSSEStream(gresp)]
    /\ UNCHANGED <<now, env, entries, currentIndex, accessToken, expiry, tmMu, pc,
                   attempt, tok, via, rt, lastErr, outcome, ncalls, resp, marked,
                   amMu, startIndex, pre, post, ret, seen, lin, inb, fwd, gresp,
                   sideVars>>

\* handleWebSearch for any other request; writeNonStreamResponse writes the
\* message
writeNonStreamResponse ==
    /\ gresp # NoCall
    /\ reply = NoCall
    /\ reply' = [kind |-> "json", message |-> ConvertToClaudeNonStream(gresp)]
    /\ UNCHANGED <<now, env, entries, currentIndex, accessToken, expiry, tmMu, pc,
                   attempt, tok, via, rt, lastErr, outcome, ncalls, resp, marked,
                   amMu, startIndex, pre, post, ret, seen, lin, inb, fwd, gresp,
                   sideVars>>

InitConvert ==
    /\ InitShared(1)
    /\ InitCache
    /\ env = [horizon |-> StartTime, vals |-> {"ta"}, lifetimes |-> {2}]
    /\ inb = [r \in Requests |-> NoCall]
    /\ pc = [r \in Requests |-> "off"]
    /\ gresp \in GroundedResponses \cup WordyResponses \cup GappedResponses
    /\ resolving = [r \in Requests |-> NoCall]
    /\ NoTransform /\ NoLoad /\ OAuthMode /\ NoneSent

NextConvert == writeSSEResponse \/ writeNonStreamResponse

SpecConvert == InitConvert /\ [][NextConvert]_vars

\* ------------------------------------------------- link resolver, step by step
\* ResolveURLs starts one goroutine per URL, up to the cap; each goroutine
\* runs ResolveURL: prefix test, cache.Load, doResolve, cache.Store, and
\* writes its position of the result.
MaxUrls == 2        \* URLs of a short batch
MaxBeyond == 1      \* URLs of a long batch beyond the cap

Redirect2 == <<"V", "q">>

\* where the redirect service sends a redirect URL
LandingOf(url) == <<"h">> \o Tail(url)

ResolverUrls == {Page, Redirect, Redirect2}

\* a long batch: plain URLs, but for a redirect URL in front and one at the end
LongBatch(n) ==
    [k \in 1..n |-> IF k = 1 THEN Redirect ELSE IF k = n THEN Redirect2 ELSE Page]

ShortBatches == SeqsUpToAny(ResolverUrls, MaxUrls)

LongBatches ==
    {LongBatch(n) : n \in maxParallelResolves..(maxParallelResolves + MaxBeyond)}

\* ResolveURLs has been called with urls and a live context
NewResolve(urls) ==
    [pc |-> "call", ctx |-> "live", urls |-> urls, result |-> <<>>, i |-> 0,
     g |-> [k \in 1..Len(urls) |-> "none"],
     held |-> [k \in 1..Len(urls) |-> <<>>],
     how |-> [k \in 1..Len(urls) |-> "none"],
     net |-> {}, put |-> {}]

LimitAll(urls) == Len(urls)

\* ResolveURLs: limit := len(urls), capped by maxParallelResolves
Limit(urls) == Min(Len(urls), maxParallelResolves)

NoWait(c) == TRUE

\* wg.Wait(): every goroutine started has called wg.Done
AllDone(c) == \A k \in 1..Len(c.urls) : c.g[k] \in {"none", "done"}

\* what the HEAD/GET exchange gives: nothing once the context is cancelled or
\* when both time out or fail, the landing URL otherwise
NetAnswers(url, ctx) ==
    IF ctx = "cancelled" THEN {<<>>} ELSE {<<>>, LandingOf(url)}

ResolverFrame ==
    UNCHANGED <<now, env, entries, currentIndex, accessToken, expiry, tmMu, pc,
                attempt, tok, via, rt, lastErr, outcome, ncalls, resp, marked,
                amMu, startIndex, pre, post, ret, seen, lin, inb, fwd, gresp, reply,
                asideVars, sent>>

\* ResolveURLs: the empty batch is returned at once; else result is a copy
ResolveURLsCall(r) ==
    LET c == resolving[r] IN
    /\ c.kind # "none"
    /\ c.pc = "call"
    /\ resolving' = [resolving EXCEPT ![r] =
         IF Len(c.urls) = 0
           THEN [c EXCEPT !.pc = "returned", !.result = c.urls]
           ELSE [c EXCEPT !.pc = "dispatch", !.result = c.urls]]
    /\ UNCHANGED cache
    /\ ResolverFrame

\* ResolveURLs: go func(idx) for the next index below the limit
ResolveURLsGo(r) ==
    LET c == resolving[r] IN
    /\ c.kind # "none"
    /\ c.pc = "dispatch"
    /\ c.i < Limit(c.urls)
    /\ resolving' = [resolving EXCEPT ![r] =
         [c EXCEPT !.i = c.i + 1, !.g[c.i + 1] = "run"]]
    /\ UNCHANGED cache
    /\ ResolverFrame

\* ResolveURLs: wg.Wait() and return result
ResolveURLsWait(r) ==
    LET c == resolving[r] IN
    /\ c.kind # "none"
    /\ c.pc = "dispatch"
    /\ c.i = Limit(c.urls)
    /\ AllDone(c)
    /\ resolving' = [resolving EXCEPT ![r] = [c EXCEPT !.pc = "returned"]]
    /\ UNCHANGED cache
    /\ ResolverFrame

\* ResolveURL in goroutine k: the prefix test and cache.Load
ResolveURLLoad(r, k) ==
    LET c == resolving[r]
        url == c.urls[k]
    IN /\ c.g[k] = "run"
       /\ resolving' = [resolving EXCEPT ![r] =
            IF ~isVertexRedirectURL(url)
              THEN [c EXCEPT !.g[k] = "done", !.how[k] = "plain", !.result[k] = url]
            ELSE IF url \in DOMAIN cache
              THEN [c EXCEPT !.g[k] = "done", !.how[k] = "hit", !.result[k] = cache[url]]
            ELSE [c EXCEPT !.g[k] = "net"]]
       /\ UNCHANGED cache
       /\ ResolverFrame

\* ResolveURL in goroutine k: doResolve
ResolveURLFetch(r, k) ==
    LET c == resolving[r]
        url == c.urls[k]
    IN /\ c.g[k] = "net"
       /\ \E ans \in NetAnswers(url, c.ctx) :
            resolving' = [resolving EXCEPT ![r] =
              [c EXCEPT !.g[k] = "store",
                        !.held[k] = doResolve(url, ans),
                        !.how[k] = IF c.ctx = "cancelled" THEN "aborted"
                                   ELSE IF ans = <<>> THEN "failed" ELSE "resolved",
                        !.net = @ \cup {k}]]
       /\ UNCHANGED cache
       /\ ResolverFrame

\* ResolveURL in goroutine k: cache.Store, return; result[idx] is written
\* and wg.Done is called
ResolveURLStore(r, k) ==
    LET c == resolving[r]
        url == c.urls[k]
    IN /\ c.g[k] = "store"
       /\ cache' = (url :> c.held[k]) @@ cache
       /\ resolving' = [resolving EXCEPT ![r] =
            [c EXCEPT !.g[k] = "done", !.result[k] = c.held[k], !.put = @ \cup {k}]]
       /\ ResolverFrame

\* the client of request r goes away while the call is in progress
CancelRequest(r) ==
    LET c == resolving[r] IN
    /\ c.kind # "none"
    /\ c.pc \in {"call", "dispatch"}
    /\ c.ctx = "live"
    /\ resolving' = [resolving EXCEPT ![r] = [c EXCEPT !.ctx = "cancelled"]]
    /\ UNCHANGED cache
    /\ ResolverFrame

\* request 1 resolves any batch; next to a short batch a second request may
\* resolve one redirect URL
InitResolve ==
    /\ InitShared(1)
    /\ InitCache
    /\ env = [horizon |-> StartTime, vals |-> {"ta"}, lifetimes |-> {2}]
    /\ inb = [r \in Requests |-> NoCall]
    /\ gresp = NoCall
    /\ pc = [r \in Requests |-> "off"]
    /\ NoTransform /\ NoLoad /\ OAuthMode /\ NoneSent
    /\ \E urls \in ShortBatches \cup LongBatches, other \in {<<>>, <<Redirect>>} :
         /\ urls \in LongBatches => other = <<>>
         /\ resolving = [r \in Requests |->
                IF r = 1 THEN [kind |-> "resolve"] @@ NewResolve(urls)
                ELSE IF r = 2 /\ other # <<>>
                  THEN [kind |-> "resolve"] @@ NewResolve(other)
                ELSE NoCall]

NextResolve ==
    \E r \in Requests :
        \/ ResolveURLsCall(r)
        \/ ResolveURLsGo(r)
        \/ ResolveURLsWait(r)
        \/ CancelRequest(r)
        \/ \E k \in 1..(maxParallelResolves + MaxBeyond) :
              /\ resolving[r].kind # "none"
              /\ k <= Len(resolving[r].urls)
              /\ \/ ResolveURLLoad(r, k)
                 \/ ResolveURLFetch(r, k)
                 \/ ResolveURLStore(r, k)

SpecResolve == InitResolve /\ [][NextResolve]_vars

\* ------------------------------------------------------ request transformer
MaxBlocks == 2      \* segments of the message under study
MaxContext == 2     \* messages before the message under study

\* JSON values as gjson sees them
JsonString(text) == [kind |-> "string", text |-> text]
JsonArray(items) == [kind |-> "array", items |-> items]
JsonOther == [kind |-> "other"]

\* a content block; a field that is absent reads as "" (gjson's String())
Block(type) ==
    [type |-> type, text |-> "", id |-> "", name |-> "", input |-> "absent",
     tool_use_id |-> "", content |-> JsonOther]
TextBlock(text) == [Block("text") EXCEPT !.text = text]
ToolUse(id, name, input) ==
    [Block("tool_use") EXCEPT !.id = id, !.name = name, !.input = input]
ToolResult(id, content) ==
    [Block("tool_result") EXCEPT !.tool_use_id = id, !.content = content]
Message(role, content) == [role |-> role, content |-> content]

SameRole(role) == role

\* TransformMessages: geminiRole
geminiRole(role) == IF role = "assistant" THEN "model" ELSE role

RECURSIVE Flatten(_)
\* the lists of a list, one after the other
Flatten(lists) ==
    IF lists = <<>> THEN <<>> ELSE lists[1] \o Flatten(Tail(lists))

\* the content blocks buildToolIdToNameMap visits, in order
ScannedBlocks(msgs) ==
    Flatten([i \in 1..Len(msgs) |->
                IF msgs[i].content.kind = "array" THEN msgs[i].content.items ELSE <<>>])

RECURSIVE MappingOf(_)
\* mapping[id] = name for each tool_use with id and name, in order
MappingOf(blocks) ==
    IF blocks = <<>> THEN <<>>
    ELSE LET b == blocks[Len(blocks)]
             m == MappingOf(SubSeq(blocks, 1, Len(blocks) - 1))
         IN IF b.type = "tool_use" /\ b.id # "" /\ b.name # ""
              THEN (b.id :> b.name) @@ m
              ELSE m

\* buildToolIdToNameMap
buildToolIdToNameMap(msgs) ==
    IF msgs.kind # "array" THEN <<>> ELSE MappingOf(ScannedBlocks(msgs.items))

\* toolIdToName[toolUseId]: "" for a key the map does not hold
Lookup(toolIdToName, id) ==
    IF id \in DOMAIN toolIdToName THEN toolIdToName[id] ELSE ""

\* json.Unmarshal of the input's raw text into args
ParseArgs(input) == IF input = "object" THEN [type |-> "args"] ELSE Nil

\* the result text of a tool_result, as the list of its pieces
ResultContent(content) ==
    IF content.kind = "string" THEN <<content.text>>
    ELSE IF content.kind = "array"
      THEN LET texts == SelectSeq(content.items, LAMBDA it : it.type = "text")
           IN [i \in 1..Len(texts) |-> texts[i].text]
    ELSE <<>>

GeminiText(text) == [kind |-> "text", text |-> text]
GeminiFunctionCall(name, args, id) ==
    [kind |-> "functionCall", name |-> name, args |-> args, id |-> id]
GeminiFunctionResponse(name, result, id) ==
    [kind |-> "functionResponse", name |-> name, result |-> result, id |-> id]

NameLookupOnly(funcName, toolUseId) == funcName

\* if funcName == "" { funcName = toolUseId }
NameOrId(funcName, toolUseId) == IF funcName = "" THEN toolUseId ELSE funcName

\* transformContentBlock, case "tool_use"
ToolUseParts(block) ==
    <<GeminiFunctionCall(block.name, ParseArgs(block.input), block.id)>>

\* transformContentBlock
transformContentBlock(block, toolIdToName) ==
    CASE block.type = "text" ->
            IF block.text # "" /\ block.text # "(no content)"
              THEN <<GeminiText(block.text)>> ELSE <<>>
      [] block.type = "tool_use" -> ToolUseParts(block)
      [] block.type = "tool_result" ->
            <<GeminiFunctionResponse(
                 NameOrId(Lookup(toolIdToName, block.tool_use_id), block.tool_use_id),
                 ResultContent(block.content), block.tool_use_id)>>
      [] OTHER -> <<>>

\* TransformMessages: the parts of one message
PartsOf(msg, toolIdToName) ==
    IF msg.content.kind = "string"
      THEN IF msg.content.text # "" THEN <<GeminiText(msg.content.text)>> ELSE <<>>
    ELSE IF msg.content.kind = "array"
      THEN Flatten([i \in 1..Len(msg.content.items) |->
                       transformContentBlock(msg.content.items[i], toolIdToName)])
    ELSE <<>>

\* if len(content.Parts) > 0
HasParts(content) == Len(content.parts) > 0

\* TransformMessages
TransformMessages(msgs) ==
    IF msgs.kind # "array" THEN <<>>
    ELSE LET toolIdToName == buildToolIdToNameMap(msgs)
             turns == [i \in 1..Len(msgs.items) |->
                          [role |-> geminiRole(msgs.items[i].role),
                           parts |-> PartsOf(msgs.items[i], toolIdToName)]]
         IN SelectSeq(turns, HasParts)

\* ---- the conversations the transformer is applied to
ToolTurn == Message("assistant", JsonArray(<<ToolUse("x", "f", "object")>>))
PlainTurn == Message("user", JsonString("hi"))
EmptyTurn == Message("system", JsonArray(<<Block("thinking")>>))
Context == {ToolTurn, PlainTurn, EmptyTurn}

Blocks ==
    { TextBlock(""), TextBlock("(no content)"), TextBlock("hi"),
      ToolUse("x", "g", "bad"), ToolUse("y", "", "object"),
      ToolResult("x", JsonString("r")),
      ToolResult("y", JsonArray(<<TextBlock("a"), Block("image"), TextBlock("b")>>)),
      Block("thinking"), Block("redacted_thinking"), Block("image") }

StudiedContents ==
    {JsonString(t) : t \in {"", "(no content)", "hi"}}
        \cup {JsonOther}
        \cup {JsonArray(a) : a \in SeqsUpTo(Blocks, MaxBlocks)}

StudiedTurns ==
    {Message(role, c) : role \in {"assistant", "user"}, c \in StudiedContents}

\* a message under study, with up to MaxContext messages before it and
\* possibly the tool turn after it; or no message list at all
Conversations ==
    {JsonOther, JsonArray(<<>>)}
        \cup {JsonArray(before \o <<m>> \o after) :
                  before \in SeqsUpToAny(Context, MaxContext),
                  m \in StudiedTurns,
                  after \in {<<>>, <<ToolTurn>>}}

\* buildRequest calls TransformMessages on the payload
TransformMessagesCall ==
    /\ messages # NoCall
    /\ contents = NoCall
    /\ contents' = [kind |-> "contents", items |-> TransformMessages(messages)]
    /\ UNCHANGED <<now, env, entries, currentIndex, accessToken, expiry, tmMu, pc,
                   attempt, tok, via, rt, lastErr, outcome, ncalls, resp, marked,
                   amMu, startIndex, pre, post, ret, seen, lin, inb, fwd, gresp, reply,
                   cache, resolving, messages, geminiAPIKey, sent, creds, files,
                   loadErr>>

InitTransform ==
    /\ InitShared(1)
    /\ InitCache
    /\ env = [horizon |-> StartTime, vals |-> {"ta"}, lifetimes |-> {2}]
    /\ inb = [r \in Requests |-> NoCall]
    /\ gresp = NoCall
    /\ pc = [r \in Requests |-> "off"]
    /\ resolving = [r \in Requests |-> NoCall]
    /\ NoLoad /\ OAuthMode /\ NoneSent
    /\ messages \in Conversations
    /\ contents = NoCall

NextTransform == TransformMessagesCall

SpecTransform == InitTransform /\ [][NextTransform]_vars

\* ------------------------------------------------------- credential loader
MaxFiles == 3       \* credential files on disk

\* what a credential file may hold: something unreadable or not JSON, JSON
\* without a refresh_token string, or a refresh secret and maybe a project
FileContents ==
    { [kind |-> "unreadable"],
      [kind |-> "json", refresh_token |-> "", project |-> ""],
      [kind |-> "json", refresh_token |-> "s1", project |-> ""],
      [kind |-> "json", refresh_token |-> "s1", project |-> "pa"],
      [kind |-> "json", refresh_token |-> "s2", project |-> ""] }

AuthFiles == 1..MaxFiles

NeverLoaded(cs, refreshToken) == FALSE

\* LoadFromFile: the scan for an entry with the same RefreshToken
AlreadyLoaded(cs, refreshToken) ==
    \E i \in DOMAIN cs : cs[i].RefreshToken = refreshToken

\* append to a slice indexed from 0
OnlyNewest(slice, x) == [i \in 0..0 |-> x]

\* am.entries = append(am.entries, entry)
Appended(slice, x) ==
    [i \in 0..Cardinality(DOMAIN slice) |->
        IF i < Cardinality(DOMAIN slice) THEN slice[i] ELSE x]

LoaderFrame ==
    UNCHANGED <<now, env, accessToken, expiry, tmMu, pc, attempt, tok, via, rt,
                lastErr, outcome, ncalls, resp, marked, amMu, startIndex, pre, post,
                ret, seen, lin, inb, fwd, gresp, reply, cache, resolving, messages,
                contents, geminiAPIKey, sent, files>>

\* LoadFromFile, up to the lock: the file is read and parsed
LoadFromFileRead(path) ==
    /\ loadErr.kind # "loading"
    /\ loadErr' =
          IF files[path].kind # "json"
            THEN [kind |-> "returned", path |-> path, err |-> "failed to read or parse"]
          ELSE IF files[path].refresh_token = ""
            THEN [kind |-> "returned", path |-> path, err |-> "no refresh_token found"]
          ELSE [kind |-> "loading", path |-> path,
                refreshToken |-> files[path].refresh_token,
                projectID |-> files[path].project]
    /\ UNCHANGED <<entries, creds, currentIndex>>
    /\ LoaderFrame

\* LoadFromFile, under the lock: the duplicate check, else the append
LoadFromFileStore ==
    /\ loadErr.kind = "loading"
    /\ IF AlreadyLoaded(creds, loadErr.refreshToken)
         THEN UNCHANGED <<entries, creds>>
         ELSE /\ creds' = Appended(creds, [FilePath |-> loadErr.path,
                                           RefreshToken |-> loadErr.refreshToken,
                                           ProjectID |-> loadErr.projectID])
              /\ entries' = Appended(entries, [FailCount |-> 0, LastFail |-> ZeroTime])
    /\ loadErr' = [kind |-> "returned", path |-> loadErr.path, err |-> "nil"]
    /\ UNCHANGED currentIndex
    /\ LoaderFrame

\* shuffle: two entries change places
Shuffle ==
    /\ \E i, j \in DOMAIN entries :
         /\ i < j
         /\ entries' = [entries EXCEPT ![i] = entries[j], ![j] = entries[i]]
         /\ creds' = [creds EXCEPT ![i] = creds[j], ![j] = creds[i]]
    /\ UNCHANGED <<currentIndex, loadErr>>
    /\ LoaderFrame

\* MarkCurrentFailed on the entries loaded so far
MarkCurrentFailedLoaded ==
    /\ Count > 0
    /\ entries[currentIndex].FailCount < MaxFail
    /\ LET res == MarkCurrentFailedOp(entries, currentIndex, now) IN
       /\ entries' = res.entries
       /\ currentIndex' = res.idx
    /\ UNCHANGED <<creds, loadErr>>
    /\ LoaderFrame

\* after NewAuthManager: no entry yet
InitLoad ==
    /\ now = StartTime
    /\ entries = <<>>
    /\ InitIdle
    /\ InitCache
    /\ env = [horizon |-> StartTime, vals |-> {"ta"}, lifetimes |-> {2}]
    /\ inb = [r \in Requests |-> NoCall]
    /\ gresp = NoCall
    /\ pc = [r \in Requests |-> "off"]
    /\ resolving = [r \in Requests |-> NoCall]
    /\ NoTransform /\ OAuthMode /\ NoneSent
    /\ creds = <<>>
    /\ files \in [AuthFiles -> FileContents]
    /\ loadErr = NoErr

NextLoad ==
    \/ \E path \in AuthFiles : LoadFromFileRead(path)
    \/ LoadFromFileStore
    \/ Shuffle
    \/ MarkCurrentFailedLoaded

SpecLoad == InitLoad /\ [][NextLoad]_vars

\* ================================================================ claims

\* a caller of GetAccessToken has its answer (a token, or an error)
Returned(r) == pc[r] \in {"send", "invalidate", "done"}
\* a caller of GetAccessToken has sent a refresh POST to the token endpoint
Posted(r) == pc[r] = "posting" \/ via[r] = "post" \/ pc[r] \in {"invalidate", "done"}
RefreshPosts == Cardinality({r \in Requests : Posted(r)})
AllReturned == \A r \in Requests : Returned(r)

RefreshesStayFresh ==
    /\ \A r \in Requests : pc[r] = "send"
    /\ \A r \in Requests :
         via[r] = "post" => tok[r].val # "" /\ now + TokenBuffer < tok[r].exp

Cooling(e, t) == e.FailCount > 0 /\ t - e.LastFail < FailCooldown

\* C2: MarkCurrentFailed increments the current entry's FailCount and stamps
\* its LastFail, leaves the other entries alone, and makes current the first
\* entry after it in ring order that never failed or whose last failure is at
\* least the cooldown old, returning true; with no such entry the current
\* index is the starting one again and the result is true only if that
\* entry's own cooldown has elapsed.
C2_MarkCurrentFailedScan ==
    \A r \in Requests : pc[r] = "s_ret" =>
        LET p == pre[r]
            q == post[r]
            n == Cardinality(DOMAIN p.entries)
            s == p.idx
            Elig(j) == \/ p.entries[j].FailCount = 0
                       \/ p.t - p.entries[j].LastFail >= FailCooldown
            Dist(j) == (j - s + n) % n
            Cands == {j \in (DOMAIN p.entries) \ {s} : Elig(j)}
        IN /\ q.entries[s].FailCount = p.entries[s].FailCount + 1
           /\ q.entries[s].LastFail = p.t
           /\ \A j \in (DOMAIN p.entries) \ {s} : q.entries[j] = p.entries[j]
           /\ IF Cands # {}
                THEN /\ ret[r]
                     /\ q.idx \in Cands
                     /\ \A j \in Cands : Dist(q.idx) <= Dist(j)
                ELSE /\ q.idx = s
                     /\ ret[r] = (p.t - q.entries[s].LastFail >= FailCooldown)

\* a rotation in a ring of three that wrapped around, onto an entry that had
\* failed before and whose cooldown has elapsed
C2_Witness ==
    \E r \in Requests :
        /\ pc[r] = "s_ret" /\ ret[r]
        /\ Cardinality(DOMAIN pre[r].entries) = 3
        /\ post[r].idx < pre[r].idx
        /\ pre[r].entries[post[r].idx].FailCount > 0

\* C3: MarkCurrentFailed returns false exactly when, the failure just marked
\* included, every entry has failed and is inside its cooldown window; when it
\* returns true the entry it made current is not inside its cooldown window.
C3_FalseOnlyWhenAllCooling ==
    \A r \in Requests : pc[r] = "s_ret" =>
        LET q == post[r]
            t == pre[r].t
        IN /\ (~ret[r]) <=> (\A j \in DOMAIN q.entries : Cooling(q.entries[j], t))
           /\ ret[r] => ~Cooling(q.entries[q.idx], t)

\* every entry has failed, the cooldown of the others has elapsed, and the
\* failure of the current one rotates onto one of them
C3_Witness ==
    \E r \in Requests :
        /\ pc[r] = "s_ret" /\ ret[r]
        /\ Cardinality(DOMAIN post[r].entries) >= 2
        /\ \A j \in DOMAIN pre[r].entries : pre[r].entries[j].FailCount > 0
        /\ post[r].idx # pre[r].idx

\* C8: MarkCurrentFailed and ResetCurrentFailCount take effect atomically:
\* whenever the store's lock is free the store is what the calls made so far
\* produce when run one after the other in the order they took the lock, each
\* MarkCurrentFailed returns what it returns when run alone on the store it
\* found, and no reader sees a current index that no such sequence produces.
C8_StoreSerialized ==
    /\ amMu = 0 => (entries = lin.entries /\ currentIndex = lin.idx)
    /\ \A r \in Requests : seen[r].kind = "read" => seen[r].idx = seen[r].lin
    /\ \A r \in Requests : pc[r] = "s_ret" =>
         LET res == MarkCurrentFailedOp(pre[r].entries, pre[r].idx, pre[r].t)
         IN /\ ret[r] = res.ret
            /\ post[r].entries = res.entries
            /\ post[r].idx = res.idx

\* a rotation is half done (the scan has stepped onto an entry it will not
\* stay on) while another caller holds what it read from the store before
C8_Witness ==
    /\ amMu # 0
    /\ pc[amMu] = "s_scan"
    /\ currentIndex # lin.idx
    /\ currentIndex # startIndex[amMu]
    /\ \E r \in Requests \ {amMu} : pc[r] = "s_read" /\ seen[r].kind = "read"

\* request r takes a step of its own
Moves(r) == pc'[r] # pc[r]
\* GetAccessToken returns a token to r in this step (nil error)
TokenReturned(r) == pc[r] \in {"get_token", "refresh", "posting"} /\ pc'[r] = "send"
\* the backend's answer to r's attempt is handled in this step
Answered(r) == pc[r] = "wait" /\ Moves(r)
\* the answer being handled is an HTTP 401 or 403
Answer401Or403(r) ==
    resp[r].kind = "err" /\ resp[r].err.status \in {401, 403}
\* the answer being handled is a failure other than HTTP 401/403: another
\* status outside 2xx, or a transport error
AnswerOtherFailure(r) ==
    resp[r].kind = "err" /\ resp[r].err.status \notin {401, 403}

\* C4, as claimed: an HTTP 401 or 403 is an authentication failure; the cached
\* token is cleared and the store rotated before any further attempt; when the
\* rotation reports no usable credential the call ends with an error and no
\* further backend call (a single-credential store never sees a second
\* attempt); otherwise the token of the next attempt is one minted for the
\* store's current credential.
C4_StepRule ==
    \A r \in Requests :
        /\ (Answered(r) /\ Answer401Or403(r)) =>
              (pc'[r] = "invalidate" /\ ncalls'[r] = ncalls[r])
        /\ (pc[r] = "invalidate" /\ Moves(r)) =>
              (accessToken' = EmptyCache /\ expiry' = ZeroTime
                  /\ pc'[r] = "mark_failed" /\ ncalls'[r] = ncalls[r])
        /\ (pc[r] = "mark_failed" /\ Moves(r)) =>
              LET res == MarkCurrentFailedOp(entries, currentIndex, now) IN
              /\ entries' = res.entries /\ currentIndex' = res.idx
              /\ ncalls'[r] = ncalls[r]
              /\ ~res.ret => (pc'[r] = "done" /\ outcome'[r].kind = "err")
              /\ Count = 1 => ~res.ret
        /\ pc[r] = "done" => (pc'[r] = "done" /\ ncalls'[r] = ncalls[r])
        /\ (attempt[r] > 0 /\ lastErr[r].kind = "AuthError"
                /\ TokenReturned(r) /\ tok'[r].val # "") =>
              tok'[r].cred = currentIndex'

C4_AuthFailureRotates == [][C4_StepRule]_vars

\* C5, as claimed: a failure that is not an HTTP 401/403 (another status
\* outside 2xx, or a transport error) ends the call at once with that error:
\* no further backend call, the cached token stays, no entry is marked failed
\* and the store does not rotate.
C5_StepRule ==
    \A r \in Requests :
        (Answered(r) /\ AnswerOtherFailure(r)) =>
            /\ pc'[r] = "done"
            /\ outcome'[r] = ErrOutcome("non_auth", resp[r].err)
            /\ ncalls'[r] = ncalls[r]
            /\ UNCHANGED <<accessToken, expiry, entries, currentIndex>>

C5_NonAuthErrorReturnedAtOnce == [][C5_StepRule]_vars

\* C6: one call of ExecuteWebSearch issues at most maxRetries + 1 = 6 backend
\* attempts; when the loop variable passes maxRetries (the 6th pass failed
\* with an authentication failure and the rotation succeeded) the call has
\* ended with an error.
C6_AtMostSixAttempts ==
    \A r \in Requests :
        /\ ncalls[r] <= maxRetries + 1
        /\ attempt[r] <= maxRetries + 1
        /\ attempt[r] > maxRetries => (pc[r] = "done" /\ outcome[r].kind = "err")

\* six backend attempts were answered 401/403, every rotation found another
\* credential, and the call ended on the attempt cap
C6_Witness ==
    \E r \in Requests :
        /\ pc[r] = "done" /\ outcome[r].why = "max_retries"
        /\ outcome[r].err.kind = "AuthError"
        /\ ncalls[r] = maxRetries + 1

\* C7: on a 2xx answer ExecuteWebSearch returns the body of that answer and
\* sets the FailCount of the store's current entry to 0; the current index,
\* the other entries, every LastFail and the cached token stay as they are,
\* and the call makes no further backend call.
C7_StepRule ==
    \A r \in Requests :
        /\ (Answered(r) /\ resp[r].kind = "ok") =>
              /\ pc'[r] = "done"
              /\ outcome'[r].kind = "ok" /\ outcome'[r].body = resp[r].body
              /\ entries' = [entries EXCEPT ![currentIndex].FailCount = 0]
              /\ ncalls'[r] = ncalls[r]
              /\ UNCHANGED <<currentIndex, accessToken, expiry>>
        /\ (pc[r] = "done" /\ outcome[r].kind = "ok") =>
              (pc'[r] = "done" /\ ncalls'[r] = ncalls[r])

C7_SuccessResetsCurrent == [][C7_StepRule]_vars

\* a retry succeeded on an entry that had failed before: its FailCount is 0
\* again and its LastFail still shows the failure
C7_Witness ==
    \E r \in Requests :
        /\ pc[r] = "done" /\ outcome[r].kind = "ok" /\ attempt[r] > 0
        /\ entries[currentIndex].FailCount = 0
        /\ entries[currentIndex].LastFail # ZeroTime

\* C9, as claimed: under every interleaving, a rotation never makes current an
\* entry that is inside its cooldown window, and no attempt of a call is sent
\* with the token of a credential that this call has marked failed and that is
\* still inside its cooldown window.
C9_StepRule ==
    \A r \in Requests :
        /\ (pc[r] = "mark_failed" /\ Moves(r) /\ currentIndex' # currentIndex) =>
              ~Cooling(entries'[currentIndex'], now)
        /\ (pc[r] = "send" /\ pc'[r] = "wait" /\ tok[r].cred \in marked[r]) =>
              ~Cooling(entries[tok[r].cred], now)

C9_FailedCredentialRests == [][C9_StepRule]_vars

\* C10, as claimed: every token GetAccessToken returns has, when it is
\* returned, a recorded expiry more than the safety margin ahead.
C10_ReturnedTokenFresh ==
    [][\A r \in Requests : TokenReturned(r) => now + TokenBuffer < tok'[r].exp]_vars

\* C10, amended: a token GetAccessToken returns from the cache (on the read
\* path or at the double-check) is non-empty and has, when it is returned, a
\* recorded expiry more than five minutes ahead; a token returned by the
\* refresh the call made itself is the one just cached, with the recorded
\* expiry now + expires_in, whatever expires_in is.
C10_StepRule ==
    \A r \in Requests : TokenReturned(r) =>
        IF via'[r] = "post"
          THEN /\ tok'[r] = TokenOf(accessToken', expiry')
               /\ \E e \in ExpiresInVals : tok'[r].exp = now + e
          ELSE /\ tok'[r] = TokenOf(accessToken, expiry)
               /\ tok'[r].val # ""
               /\ now + TokenBuffer < tok'[r].exp

C10_CachedTokenFresh == [][C10_StepRule]_vars

\* one caller holds a token it took from the cache on the read path, after
\* another caller's refresh replaced a token that was inside the margin
C10_Witness ==
    \E r, q \in Requests :
        /\ pc[r] = "send" /\ via[r] = "fast"
        /\ via[q] = "post"
        /\ now + TokenBuffer < tok[r].exp

\* C11: InvalidateToken empties the cache whatever the expiry was; while the
\* cache is empty GetAccessToken leaves the read path for refresh and refresh
\* sends a POST, so a token handed out without a POST of the call's own is
\* never the emptied one: it is what a refresh stored after the invalidation.
C11_StepRule ==
    \A r \in Requests :
        /\ (pc[r] = "invalidate" /\ Moves(r)) =>
              (accessToken'.val = "" /\ expiry' = ZeroTime)
        /\ (accessToken.val = "" /\ pc[r] = "get_token" /\ Moves(r)) =>
              pc'[r] = "refresh"
        /\ (accessToken.val = "" /\ pc[r] = "refresh" /\ Moves(r)) =>
              pc'[r] = "posting"
        /\ (TokenReturned(r) /\ via'[r] # "post") =>
              (accessToken.val # "" /\ tok'[r] = TokenOf(accessToken, expiry))

C11_InvalidateForcesRefresh == [][C11_StepRule]_vars

\* the token of the failed attempt was still more than the margin from its
\* expiry when it was invalidated, and the retry's refresh POST is in flight
C11_Witness ==
    \E r \in Requests :
        /\ pc[r] = "posting" /\ attempt[r] > 0
        /\ tok[r].val # "" /\ now + TokenBuffer < tok[r].exp
        /\ accessToken.val = ""

\* ServeHTTP decides on r's request in this step
Dispatched(r) == pc[r] = "inbound" /\ Moves(r)
\* the tools list of the payload has an entry whose type starts with "web_search"
HasSearchEntry(q) ==
    /\ q.body.tools.isArray
    /\ \E i \in DOMAIN q.body.tools.items :
          LET t == q.body.tools.items[i] IN
          Len(t) >= 2 /\ t[1] = "w" /\ t[2] = "s"
\* some position of the string starts the letters "claude"
HasClaude(str) == \E i \in 1..(Len(str) - 1) : str[i] = "c" /\ str[i + 1] = "l"
\* the path ends with "/messages"
EndsWithMessages(str) ==
    Len(str) >= 2 /\ str[Len(str) - 1] = "/" /\ str[Len(str)] = "m"
\* the path ends with "/messages" followed by slashes only
EndsWithMessagesSlashes(str) ==
    \E k \in 2..Len(str) :
        /\ EndsWithMessages(SubSeq(str, 1, k))
        /\ \A i \in (k + 1)..Len(str) : str[i] = "/"
\* the model name the dispatcher tests: the payload's, the default when the
\* payload has none, letter case ignored
ModelMatches(q) ==
    \/ q.body.model = <<>>
    \/ HasClaude([i \in DOMAIN q.body.model |->
                    CASE q.body.model[i] = "C" -> "c"
                      [] q.body.model[i] = "L" -> "l"
                      [] OTHER -> q.body.model[i]])
\* the request is sent to proxyOrReject with the body it came with, and
\* nothing else changes
HandedToPassThrough(r) ==
    /\ pc'[r] = "passthrough"
    /\ fwd'[r] = [kind |-> "proxy", body |-> inb[r].body]
    /\ UNCHANGED <<entries, currentIndex, accessToken, expiry, ncalls>>

\* C12, as claimed: a request goes to the search pipeline iff its method is
\* POST, its path ends with "/messages", the model name in its payload
\* contains "claude" and its tools list has an entry whose type starts with
\* "web_search"; every other request is handed to pass-through.
C12_RoutedIffAsClaimed ==
    [][\A r \in Requests : Dispatched(r) =>
          LET q == inb[r]
              eligible == /\ q.method = "POST"
                          /\ EndsWithMessages(q.path)
                          /\ HasClaude(q.body.model)
                          /\ HasSearchEntry(q)
          IN IF eligible THEN pc'[r] = "idle" ELSE pc'[r] = "passthrough"]_vars

\* C12, amended: a request goes to the search pipeline iff its method is POST,
\* its path with trailing slashes removed ends with "/messages", its body was
\* read, the model name (the default claude model when the payload has none)
\* contains "claude" in any letter case, and its tools field is an array with
\* an entry whose type starts with "web_search".  A POST to the messages path
\* whose body cannot be read is answered 413 (too large) or 400; every other
\* request is handed to pass-through.
C12_StepRule ==
    \A r \in Requests : Dispatched(r) =>
        LET q == inb[r]
            atMessages == q.method = "POST" /\ EndsWithMessagesSlashes(q.path)
        IN IF atMessages /\ q.readErr # "none"
             THEN /\ pc'[r] = "rejected"
                  /\ fwd'[r].kind = "status"
                  /\ fwd'[r].code = (IF q.readErr = "too_large" THEN 413 ELSE 400)
             ELSE IF atMessages /\ ModelMatches(q) /\ HasSearchEntry(q)
               THEN pc'[r] = "idle" /\ fwd'[r].kind = "search"
               ELSE HandedToPassThrough(r)

C12_Routed == [][C12_StepRule]_vars

\* a request that names no model and declares a web_search tool is in the
\* search pipeline under the default model
C12_Witness ==
    \E r \in Requests :
        pc[r] = "idle" /\ fwd[r].kind = "search" /\ fwd[r].model = DefaultModel

\* r's request is with pass-through, or was answered by the dispatcher
Bypassed(r) == pc[r] \in {"passthrough", "forwarded", "rejected"}
\* the payload has no web-search tool entry, or its model does not match
NotSearch(q) == ~HasSearchEntry(q) \/ ~ModelMatches(q)
\* a bypassed request never enters the pipeline: no backend call, no token
\* refresh, no change to the store, and the body goes upstream as it came
BypassFrame(r) ==
    /\ Bypassed(r) =>
          /\ Bypassed(r)'
          /\ UNCHANGED <<entries, currentIndex, accessToken, expiry, ncalls>>
          /\ ncalls[r] = 0
    /\ (pc[r] = "passthrough" /\ pc'[r] = "forwarded") =>
          fwd'[r] = [kind |-> "upstream", body |-> inb[r].body]

\* C13, as claimed: every request whose payload has no web-search tool entry or
\* whose model does not match is handed to pass-through with its body
\* unchanged, with no backend call, no token refresh and no store change.
C13_BypassAlways ==
    [][\A r \in Requests :
          /\ (Dispatched(r) /\ NotSearch(inb[r])) => HandedToPassThrough(r)
          /\ BypassFrame(r)]_vars

\* C13, amended: such a request causes no backend call, no token refresh and
\* no store change, and is handed to pass-through with its body unchanged,
\* unless it is a POST to the messages path whose body cannot be read: that
\* one is answered 413 or 400 by the dispatcher itself.
C13_StepRule ==
    \A r \in Requests :
        /\ (Dispatched(r) /\ NotSearch(inb[r])) =>
              IF /\ inb[r].method = "POST" /\ EndsWithMessagesSlashes(inb[r].path)
                 /\ inb[r].readErr # "none"
                THEN /\ pc'[r] = "rejected" /\ fwd'[r].kind = "status"
                     /\ UNCHANGED <<entries, currentIndex, accessToken, expiry, ncalls>>
                ELSE HandedToPassThrough(r)
        /\ BypassFrame(r)

C13_Bypass == [][C13_StepRule]_vars

\* a POST to the messages path for a claude model whose only tool is a
\* calculator went upstream unchanged, and nothing was called
C13_Witness ==
    \E r \in Requests :
        /\ pc[r] = "forwarded"
        /\ inb[r].method = "POST" /\ inb[r].path = <<"/", "v", "/", "m">>
        /\ inb[r].body.model = <<"c", "l">>
        /\ inb[r].body.tools = [isArray |-> TRUE, items |-> <<(<<"x">>)>>]
        /\ fwd[r] = [kind |-> "upstream", body |-> inb[r].body]
        /\ ncalls[r] = 0 /\ accessToken = EmptyCache


\* ------------------------------------------------------------------ C14
Streamed == reply.kind = "sse"

StartsIn(ev) == {i \in 1..Len(ev) : ev[i].event = "content_block_start"}

StopsIn(ev) == {i \in 1..Len(ev) : ev[i].event = "content_block_stop"}

\* the event that closes the block opened at position i, Len(ev) + 1 if none
StopOf(ev, i) ==
    LET later == {j \in StopsIn(ev) : j > i /\ ev[j].index = ev[i].index}
    IN IF later = {} THEN Len(ev) + 1
       ELSE CHOOSE j \in later : \A k \in later : j <= k

\* the deltas of the block opened at position i
DeltasOf(ev, i) ==
    {j \in (i + 1)..(StopOf(ev, i) - 1) : ev[j].event = "content_block_delta"}

\* the place a block takes in the order tool invocation, tool result,
\* citation, answer text
RankOf(ev, i) ==
    LET type == ev[i].content_block.type IN
    IF type = "server_tool_use" THEN 0
    ELSE IF type = "web_search_tool_result" THEN 1
    ELSE IF \E j \in DeltasOf(ev, i) : ev[j].delta.type = "citations_delta" THEN 2
    ELSE 3

\* C14: the event list starts with message_start and ends with message_delta
\* then message_stop; exactly one block start is the tool invocation, and it
\* has index 0; every block start is followed by a block stop of its index;
\* the blocks come in the order tool invocation, tool result, one block per
\* citation, answer text; the block indices count up from 0 by one; and no
\* second block is opened while one is open.
C14_EventOrder ==
    Streamed =>
      LET ev == reply.events
          n == Len(ev)
          starts == StartsIn(ev)
          toolUses == {i \in starts : ev[i].content_block.type = "server_tool_use"}
      IN /\ n >= 3
         /\ ev[1].event = "message_start"
         /\ ev[n - 1].event = "message_delta"
         /\ ev[n].event = "message_stop"
         /\ Cardinality(toolUses) = 1
         /\ \A i \in toolUses : ev[i].index = 0
         /\ \A i \in starts : StopOf(ev, i) <= n
         /\ \A i, j \in starts : i < j => RankOf(ev, i) <= RankOf(ev, j)
         /\ Cardinality({i \in starts : RankOf(ev, i) = 1}) = 1
         /\ Cardinality({i \in starts : RankOf(ev, i) = 3}) <= 1
         /\ \A i \in starts :
              RankOf(ev, i) = 2 =>
                Cardinality({j \in DeltasOf(ev, i) :
                               ev[j].delta.type = "citations_delta"}) = 1
         /\ Cardinality({i \in starts : RankOf(ev, i) = 2})
              = Len(buildCitationsForSSE(gresp.supports,
                                         extractWebSearchResultsWithResolve(gresp)))
         /\ \A i \in starts : ev[i].index = Cardinality({j \in starts : j < i})
         /\ \A k \in 1..n :
              Cardinality({i \in starts : i <= k})
                - Cardinality({i \in StopsIn(ev) : i <= k}) \in {0, 1}

\* a stream with the tool invocation, the tool result, two citations and text
C14_Witness ==
    /\ Streamed
    /\ Cardinality({i \in StartsIn(reply.events) : RankOf(reply.events, i) = 2}) = 2
    /\ \E i \in StartsIn(reply.events) : RankOf(reply.events, i) = 3

\* ------------------------------------------------------------------ C15
Buffered == reply.kind = "json"

\* the result list the response was built from
ResultsOf(g) == extractWebSearchResultsWithResolve(g)

\* a support that yields a citation: cited text, a first chunk index that
\* names a result, and a URL in that result
Citable(support, results) ==
    /\ support.text # <<>>
    /\ Len(support.indices) >= 1
    /\ support.indices[1] \in 0..(Len(results) - 1)
    /\ results[support.indices[1] + 1].url # <<>>

\* the supports of a response that yield a citation, in order
CitableSupports(g) ==
    LET results == ResultsOf(g)
        Test(support) == Citable(support, results)
    IN IF g.supports.isArray THEN SelectSeq(g.supports.items, Test) ELSE <<>>

\* C15: the content array of a non-stream message is, in this order, the
\* server_tool_use block named web_search whose argument is the first search
\* query (the empty string when the backend gave none), the
\* web_search_tool_result block with the whole result list, one empty-text
\* block per citation holding exactly that one citation, and a last text
\* block exactly when the answer text is not empty; the stop reason is
\* end_turn and the usage counts one web search request.
C15_ContentOrder ==
    Buffered =>
      LET content == reply.message.content
          cited == CitableSupports(gresp)
          k == Len(cited)
          hasText == gresp.text # <<>>
      IN /\ Len(content) = 2 + k + (IF hasText THEN 1 ELSE 0)
         /\ content[1].type = "server_tool_use"
         /\ content[1].name = "web_search"
         /\ content[1].input =
              {<<"query", IF gresp.queries.isArray /\ gresp.queries.items # <<>>
                            THEN gresp.queries.items[1] ELSE <<>> >>}
         /\ content[2].type = "web_search_tool_result"
         /\ content[2].content = ResultsOf(gresp)
         /\ \A i \in 1..k :
              /\ content[2 + i].type = "text"
              /\ content[2 + i].text = <<>>
              /\ Len(content[2 + i].citations) = 1
              /\ content[2 + i].citations[1].cited_text = cited[i].text
         /\ hasText => /\ content[3 + k].type = "text"
                       /\ content[3 + k].text = gresp.text
                       /\ DOMAIN content[3 + k] = {"type", "text"}
         /\ reply.message.stop_reason = "end_turn"
         /\ reply.message.usage.web_search_requests = 1

\* a message built from two search queries, two citable supports and a text
C15_Witness ==
    /\ Buffered
    /\ Len(gresp.queries.items) = 2
    /\ Len(CitableSupports(gresp)) = 2
    /\ gresp.text # <<>>
    /\ Len(reply.message.content) = 5

\* ------------------------------------------------------------------ C16
RECURSIVE Accumulate(_, _)
\* a client's reading of a block: the block as opened, with every delta of
\* it applied in order
Accumulate(block, deltas) ==
    IF deltas = <<>> THEN block
    ELSE LET d == deltas[1].delta
             next == IF d.type = "input_json_delta"
                       THEN [block EXCEPT !.input = d.partial_json]
                     ELSE IF d.type = "citations_delta"
                       THEN [block EXCEPT !.citations = Append(@, d.citation)]
                     ELSE [block EXCEPT !.text = @ \o d.text]
         IN Accumulate(next, Tail(deltas))

\* the content blocks a client reconstructs from an event list
Reconstruct(ev) ==
    LET starts == StartsIn(ev)
        at(k) == CHOOSE i \in starts : Cardinality({j \in starts : j < i}) = k - 1
    IN [k \in 1..Cardinality(starts) |->
          Accumulate(ev[at(k)].content_block,
                     SubSeq(ev, at(k) + 1, StopOf(ev, at(k)) - 1))]

\* the events of the response if it is streamed, the message if it is not
EventsFor(g) == IF Streamed THEN reply.events ELSE ConvertToClaudeSSEStream(g)

MessageFor(g) == IF Buffered THEN reply.message ELSE ConvertToClaudeNonStream(g)

\* C16: for one backend response and one set of resolver answers, the blocks
\* reconstructed from the stream events are, block for block and in order,
\* the content array of the non-stream message, and the stream's closing
\* message_delta carries the message's stop reason, token counts and
\* tool-use count.
C16_StreamEqualsMessage ==
    reply # NoCall =>
      LET ev == EventsFor(gresp)
          msg == MessageFor(gresp)
          closing == ev[Len(ev) - 1]
      IN /\ Reconstruct(ev) = msg.content
         /\ closing.stop_reason = msg.stop_reason
         /\ closing.usage = msg.usage
         /\ ev[1].usage.input_tokens = msg.usage.input_tokens

\* ------------------------------------------------------------------ C17
\* the content blocks the client gets, in either mode
ClientBlocks == IF Streamed THEN Reconstruct(reply.events) ELSE reply.message.content

RECURSIVE CitationsIn(_)
\* the citations of a list of content blocks, in order
CitationsIn(blocks) ==
    IF blocks = <<>> THEN <<>>
    ELSE (IF "citations" \in DOMAIN blocks[1] THEN blocks[1].citations ELSE <<>>)
            \o CitationsIn(Tail(blocks))

Emitted == CitationsIn(ClientBlocks)

\* C17: in both modes the citations the client gets are those of the
\* supports that have cited text, at least one chunk index, a referenced
\* index within the result list and a URL in the referenced result, in the
\* order of the supports; every other support yields nothing, so there are
\* never more citations than supports.
C17_CitationIff ==
    reply # NoCall =>
      LET cited == CitableSupports(gresp) IN
      /\ Len(Emitted) = Len(cited)
      /\ \A i \in 1..Len(cited) : Emitted[i].cited_text = cited[i].text
      /\ Len(Emitted) <= Len(gresp.supports.items)

\* the support is dropped for each of the four reasons: no cited text, no
\* index, an index outside the result list, a result without URL
DroppedFor(g, why) ==
    LET results == ResultsOf(g) IN
    \E i \in 1..Len(g.supports.items) :
        LET sup == g.supports.items[i] IN
        CASE why = "text" -> sup.text = <<>>
          [] why = "index" -> sup.text # <<>> /\ sup.indices = <<>>
          [] why = "range" -> /\ sup.text # <<>> /\ sup.indices # <<>>
                              /\ sup.indices[1] \notin 0..(Len(results) - 1)
          [] why = "url" -> /\ sup.text # <<>> /\ sup.indices # <<>>
                            /\ sup.indices[1] \in 0..(Len(results) - 1)
                            /\ results[sup.indices[1] + 1].url = <<>>

\* a reply in which one support became a citation and another was dropped
\* because the result it names has no URL
C17_Witness ==
    /\ reply # NoCall
    /\ gresp.supports.isArray
    /\ Len(gresp.supports.items) = 2
    /\ Len(Emitted) = 1
    /\ DroppedFor(gresp, "url")

\* ------------------------------------------------------------------ C18
\* C18: a citation carries the URL and the title of the result named by the
\* first chunk index of its support, and the support's cited text, whatever
\* further indices the support has; a support whose first index is outside
\* the result list yields no citation even if a later index is inside.
C18_FirstIndexDecides ==
    reply # NoCall =>
      LET results == ResultsOf(gresp)
          inRange(sup) == /\ sup.text # <<>> /\ sup.indices # <<>>
                          /\ sup.indices[1] \in 0..(Len(results) - 1)
                          /\ results[sup.indices[1] + 1].url # <<>>
          kept == IF gresp.supports.isArray
                    THEN SelectSeq(gresp.supports.items, inRange) ELSE <<>>
      IN /\ Len(Emitted) = Len(kept)
         /\ \A i \in 1..Len(kept) :
              LET result == results[kept[i].indices[1] + 1] IN
              /\ Emitted[i].url = result.url
              /\ Emitted[i].title = result.title
              /\ Emitted[i].cited_text = kept[i].text
              /\ Emitted[i].type = "web_search_result_location"

\* two results with different URLs; one support names the second result
\* first and is cited with it, another names an index outside the list
\* first, the first result after it, and is dropped
C18_Witness ==
    /\ reply # NoCall
    /\ Len(ResultsOf(gresp)) = 2
    /\ ResultsOf(gresp)[1].url # <<>>
    /\ ResultsOf(gresp)[1].url # ResultsOf(gresp)[2].url
    /\ gresp.supports.isArray
    /\ gresp.supports.items = << [text |-> <<"s", "1">>, indices |-> <<1, 0>>],
                                 [text |-> <<"s", "h">>, indices |-> <<MaxChunks, 0>>] >>
    /\ Len(Emitted) = 1
    /\ Emitted[1].url = ResultsOf(gresp)[2].url

\* ------------------------------------------------------------------ C19
\* the result list the client gets, in either mode
ClientResults == ClientBlocks[2].content

\* C19: the result list has one entry per grounding chunk that has a web
\* member, in the order of the chunks, with the chunk's title and either the
\* chunk's URL or the URL the resolver turned it into; the opaque blob of an
\* entry encodes the URL the entry is returned with and its title, so it is
\* never the blob of a redirect URL that resolution replaced.
C19_ResultList ==
    reply # NoCall =>
      LET IsWeb(chunk) == chunk.web
          web == IF gresp.chunks.isArray
                   THEN SelectSeq(gresp.chunks.items, IsWeb) ELSE <<>>
          results == ClientResults
      IN /\ Len(results) = Len(web)
         /\ \A i \in 1..Len(web) :
              /\ results[i].type = "web_search_result"
              /\ results[i].title = web[i].title
              /\ results[i].url \in {web[i].uri, web[i].target}
              /\ (web[i].uri # <<>> /\ web[i].uri[1] = "V" /\ web[i].target # <<>>)
                    => results[i].url = web[i].target
              /\ results[i].encrypted_content
                    = <<"base64", <<"url", results[i].url>>,
                                  <<"title", results[i].title>> >>
              /\ results[i].url # web[i].uri =>
                    results[i].encrypted_content
                      # <<"base64", <<"url", web[i].uri>>, <<"title", web[i].title>> >>

\* a chunk without web member is left out and the redirect link of the chunk
\* after it is returned resolved
C19_Witness ==
    /\ reply # NoCall
    /\ gresp.chunks.isArray
    /\ Len(gresp.chunks.items) = 2
    /\ ~gresp.chunks.items[1].web
    /\ gresp.chunks.items[2].uri = Redirect
    /\ Len(ClientResults) = 1
    /\ ClientResults[1].url = Landing

\* ------------------------------------------------------------------ C20
\* the positions at which an answer-text block opens: a text block that is
\* not opened as a citation block
AnswerStarts(ev) ==
    {i \in StartsIn(ev) : /\ ev[i].content_block.type = "text"
                          /\ "citations" \notin DOMAIN ev[i].content_block}

\* the texts of the text_delta events of the block opened at position i
TextWindows(ev, i) ==
    LET Test(e) == e.event = "content_block_delta" /\ e.delta.type = "text_delta"
        deltas == SelectSeq(SubSeq(ev, i + 1, StopOf(ev, i) - 1), Test)
    IN [k \in 1..Len(deltas) |-> deltas[k].delta.text]

\* the code points that start in a run of bytes
CodePoints(bytes) == Cardinality({i \in 1..Len(bytes) : bytes[i] # "c"})

\* a run of bytes that is whole code points: it neither starts inside a code
\* point nor ends inside one
WholeCodePoints(bytes) ==
    /\ bytes # <<>>
    /\ bytes[1] # "c"
    /\ bytes[Len(bytes)] # "L"

RECURSIVE Concat(_)
Concat(texts) == IF texts = <<>> THEN <<>> ELSE texts[1] \o Concat(Tail(texts))

\* C20: the stream has an answer-text block exactly when the answer text is
\* not empty; every text_delta of it but the last has 50 code points, the
\* last has 1 to 50, each is made of whole code points, and the deltas put
\* together in order are the answer text.
C20_TextWindows ==
    Streamed =>
      LET ev == reply.events
          answers == AnswerStarts(ev)
      IN /\ (answers # {}) <=> (gresp.text # <<>>)
         /\ Cardinality(answers) <= 1
         /\ \A i \in answers :
              LET windows == TextWindows(ev, i)
                  m == Len(windows)
              IN /\ m >= 1
                 /\ \A k \in 1..m : WholeCodePoints(windows[k])
                 /\ \A k \in 1..(m - 1) : CodePoints(windows[k]) = 50
                 /\ CodePoints(windows[m]) \in 1..50
                 /\ Concat(windows) = gresp.text

\* a text of two windows and one code point, the 50th code point two bytes
\* wide, streamed as three deltas
C20_Witness ==
    /\ Streamed
    /\ CodePoints(gresp.text) = 101
    /\ gresp.text[50] = "L"
    /\ \E i \in AnswerStarts(reply.events) :
         /\ Len(TextWindows(reply.events, i)) = 3
         /\ Len(TextWindows(reply.events, i)[1]) = 51
         /\ Len(TextWindows(reply.events, i)[3]) = 1

\* ------------------------------------------------------------------ C21
\* the ResolveURLs calls made
Calls == {r \in Requests : resolving[r].kind # "none"}

\* the positions of a call
Positions(c) == 1..Len(c.urls)

\* C21: a ResolveURLs call that has returned hands back a list as long as
\* its input, whose every position holds the input URL of that position or
\* what that URL resolves to; a position whose HEAD and GET both failed,
\* timed out or were aborted holds the input URL.  (The call has no error
\* result.)
C21_SameLengthAndEcho ==
    \A r \in Calls :
        LET c == resolving[r] IN
        c.pc = "returned" =>
          /\ Len(c.result) = Len(c.urls)
          /\ \A k \in Positions(c) :
                /\ c.result[k] \in {c.urls[k], LandingOf(c.urls[k])}
                /\ c.how[k] \in {"failed", "aborted"} => c.result[k] = c.urls[k]

\* a returned batch of two redirect URLs, one resolved and one failed
C21_Witness ==
    \E r \in Calls :
        LET c == resolving[r] IN
        /\ c.pc = "returned"
        /\ Len(c.urls) = 2
        /\ c.how[1] = "resolved" /\ c.result[1] = LandingOf(c.urls[1])
        /\ c.result[1] # c.urls[1]
        /\ c.how[2] = "failed" /\ c.result[2] = c.urls[2]

\* ------------------------------------------------------------------ C22
\* a URL that starts with the redirect-service prefix
Prefixed(url) == url # <<>> /\ url[1] = "V"

\* a URL without the prefix never causes a network call or a cache write
PlainStaysLocal ==
    \A r \in Calls :
        LET c == resolving[r] IN
        \A k \in Positions(c) :
            ~Prefixed(c.urls[k]) =>
                /\ k \notin c.net /\ k \notin c.put
                /\ c.g[k] \in {"none", "run", "done"}
                /\ c.g[k] = "done" => c.result[k] = c.urls[k]

\* the step in which ResolveURL examines its URL
LoadStepRule ==
    \A r \in Calls :
        LET c == resolving[r]
            d == resolving'[r]
        IN \A k \in Positions(c) :
             (c.g[k] = "run" /\ d.g[k] # "run") =>
                LET url == c.urls[k] IN
                /\ ~Prefixed(url) =>
                      /\ d.g[k] = "done" /\ d.result[k] = url
                      /\ cache' = cache /\ d.net = c.net /\ d.put = c.put
                /\ (Prefixed(url) /\ url \in DOMAIN cache) =>
                      /\ d.g[k] = "done" /\ d.result[k] = cache[url]
                      /\ cache' = cache /\ d.net = c.net /\ d.put = c.put

\* C22: ResolveURL returns a URL without the redirect-service prefix
\* unchanged, with no network call and no cache entry added; for a URL with
\* the prefix that has a cache entry it returns the cached value, again
\* with no network call.
C22_NoCallWhenPlainOrCached == []PlainStaysLocal /\ [][LoadStepRule]_vars

\* one position was answered from the cache, another is a plain URL returned
\* as it is
C22_Witness ==
    \E r, q \in Calls :
        /\ \E k \in Positions(resolving[r]) :
              /\ resolving[r].how[k] = "hit"
              /\ resolving[r].result[k] = LandingOf(resolving[r].urls[k])
        /\ \E k \in Positions(resolving[q]) :
              /\ resolving[q].how[k] = "plain"
              /\ resolving[q].result[k] = Page

\* ------------------------------------------------------------------ C23
\* the goroutines of a call that are running
InFlight(c) == {k \in Positions(c) : c.g[k] \in {"run", "net", "store"}}

\* C23: a ResolveURLs call never has more than 10 resolutions in flight and
\* starts none for a position after the tenth: such a position causes no
\* network call and no cache write and is returned as the input URL.
C23_CapOfTen ==
    \A r \in Calls :
        LET c == resolving[r] IN
        /\ Cardinality(InFlight(c)) <= 10
        /\ \A k \in Positions(c) :
              k > 10 =>
                /\ c.g[k] = "none"
                /\ k \notin c.net /\ k \notin c.put
                /\ c.pc = "returned" => c.result[k] = c.urls[k]

\* a batch of eleven has returned: its first redirect URL resolved, its
\* eleventh, a redirect URL too, as it was
C23_Witness ==
    \E r \in Calls :
        LET c == resolving[r] IN
        /\ c.pc = "returned"
        /\ Len(c.urls) = 11
        /\ c.result[1] = LandingOf(c.urls[1]) /\ c.result[1] # c.urls[1]
        /\ Prefixed(c.urls[11])
        /\ c.result[11] = c.urls[11]
        /\ \A k \in 1..10 : c.g[k] = "done"

\* ------------------------------------------------------------------ C24
NothingRunsAtReturn ==
    \A r \in Calls :
        resolving[r].pc = "returned" => InFlight(resolving[r]) = {}

ReturnedListIsFinal ==
    \A r \in Calls :
        resolving[r].pc = "returned" => resolving'[r].result = resolving[r].result

\* C24: when ResolveURLs returns, none of the resolutions it started is
\* still running, and no position of the list it returned is written later.
C24_ReturnsAfterAll == []NothingRunsAtReturn /\ [][ReturnedListIsFinal]_vars

\* a batch of two redirect URLs has returned after both went to the network
C24_Witness ==
    \E r \in Calls :
        LET c == resolving[r] IN
        /\ c.pc = "returned"
        /\ Len(c.urls) = 2
        /\ c.net = {1, 2}
        /\ c.put = {1, 2}

\* ------------------------------------------------------------------ C25
\* C25: a resolution aborted by the cancellation of its request leaves no
\* entry in the shared cache.
C25_CancelLeavesNoEntry ==
    \A r \in Calls :
        LET c == resolving[r] IN
        \A k \in Positions(c) : c.how[k] = "aborted" => k \notin c.put

\* ------------------------------------------------------------------ C26
\* TransformMessages has returned
Transformed == contents # NoCall

\* the input messages ([] when the payload has no message list)
Msgs == IF messages.kind = "array" THEN messages.items ELSE <<>>

\* the j-th smallest member of a set of numbers
Nth(S, j) == CHOOSE x \in S : Cardinality({y \in S : y < x}) = j - 1

\* what identifies a segment, and the part made from it
SegmentTag(b) == <<b.type, b.text, b.id, b.tool_use_id>>
PartTag(p) ==
    CASE p.kind = "text" -> <<"text", p.text, "", "">>
      [] p.kind = "functionCall" -> <<"tool_use", "", p.id, "">>
      [] p.kind = "functionResponse" -> <<"tool_result", "", "", p.id>>

\* the segments of a message; plain string content counts as one text segment
Segments(msg) ==
    IF msg.content.kind = "string" THEN <<TextBlock(msg.content.text)>>
    ELSE IF msg.content.kind = "array" THEN msg.content.items
    ELSE <<>>

\* a text that is neither empty nor the placeholder
RealText(text) == text # "" /\ text # "(no content)"

\* a segment of a kind that is mapped to a part
Mappable(b) ==
    \/ b.type = "text" /\ RealText(b.text)
    \/ b.type \in {"tool_use", "tool_result"}

\* the parts are made from segments of the message, in the segments' order
PartsInSegmentOrder(parts, msg) ==
    LET segs == Segments(msg) IN
    \E S \in SUBSET (1..Len(segs)) :
        /\ Cardinality(S) = Len(parts)
        /\ \A j \in 1..Len(parts) : PartTag(parts[j]) = SegmentTag(segs[Nth(S, j)])

\* C26: the turns TransformMessages returns are made from input messages in
\* the input's order; a turn's role is "model" for "assistant" and the
\* message's role otherwise; its parts are made from the message's segments
\* in their order; a message that has no turn has no mappable segment; and
\* no turn has an empty part list.
C26_TurnsInOrder ==
    Transformed =>
        LET out == contents.items IN
        /\ \A j \in 1..Len(out) : out[j].parts # <<>>
        /\ \E T \in SUBSET (1..Len(Msgs)) :
              /\ Cardinality(T) = Len(out)
              /\ \A j \in 1..Len(out) :
                    LET msg == Msgs[Nth(T, j)] IN
                    /\ out[j].role = IF msg.role = "assistant" THEN "model" ELSE msg.role
                    /\ PartsInSegmentOrder(out[j].parts, msg)
              /\ \A i \in (1..Len(Msgs)) \ T :
                    \A k \in 1..Len(Segments(Msgs[i])) : ~Mappable(Segments(Msgs[i])[k])

\* three messages became two turns: the assistant's tool call as a model turn,
\* nothing for the message with only a thinking segment, and a user turn of
\* two parts for a tool result followed by a text
C26_Witness ==
    /\ Transformed
    /\ Len(Msgs) = 3
    /\ Msgs[1] = ToolTurn /\ Msgs[2] = EmptyTurn
    /\ Msgs[3].role = "user"
    /\ Len(contents.items) = 2
    /\ contents.items[1].role = "model"
    /\ contents.items[2].role = "user"
    /\ Len(contents.items[2].parts) = 2
    /\ contents.items[2].parts[1].kind = "functionResponse"
    /\ contents.items[2].parts[2] = GeminiText("hi")

\* ------------------------------------------------------------------ C27
\* all segments of the conversation's segment lists, in order
AllSegments == Flatten([i \in 1..Len(Msgs) |->
                  IF Msgs[i].content.kind = "array" THEN Msgs[i].content.items ELSE <<>>])

\* all parts returned, in order
AllParts == Flatten([j \in 1..Len(contents.items) |-> contents.items[j].parts])

ToolResults == SelectSeq(AllSegments, LAMBDA b : b.type = "tool_result")
FunctionResponses == SelectSeq(AllParts, LAMBDA p : p.kind = "functionResponse")

\* every tool_result has its function-response part, in order
ResponsePerResult ==
    /\ Len(FunctionResponses) = Len(ToolResults)
    /\ \A k \in 1..Len(ToolResults) :
          FunctionResponses[k].id = ToolResults[k].tool_use_id

\* positions of the tool_use segments that carry an identifier
Carrying(id) ==
    {k \in 1..Len(AllSegments) :
        AllSegments[k].type = "tool_use" /\ AllSegments[k].id = id}

\* positions of the tool_use segments that give an identifier a name
Defining(id) ==
    {k \in Carrying(id) : AllSegments[k].id # "" /\ AllSegments[k].name # ""}

\* C27, as claimed: every tool_result becomes a function-response part named
\* after a tool_use segment of the conversation that carries its identifier,
\* and named by the raw identifier when no tool_use segment carries it.
C27_AsClaimed ==
    Transformed =>
        /\ ResponsePerResult
        /\ \A k \in 1..Len(FunctionResponses) :
              LET p == FunctionResponses[k] IN
              IF Carrying(p.id) # {}
                THEN \E u \in Carrying(p.id) : p.name = AllSegments[u].name
                ELSE p.name = p.id

\* C27, amended: every tool_result becomes a function-response part; its name
\* is the name of the last tool_use segment of the conversation that has the
\* same identifier and a non-empty identifier and name, wherever that segment
\* is, and the raw identifier when the conversation has no such segment.
C27_NameOfLastDefinition ==
    Transformed =>
        /\ ResponsePerResult
        /\ \A k \in 1..Len(FunctionResponses) :
              LET p == FunctionResponses[k] IN
              IF Defining(p.id) # {}
                THEN p.name = AllSegments[Nth(Defining(p.id), Cardinality(Defining(p.id)))].name
                ELSE p.name = p.id

\* the tool call is two messages before its result, whose part is named after
\* it, next to a result whose identifier no tool_use defines
C27_Witness ==
    /\ Transformed
    /\ Len(Msgs) = 3
    /\ Msgs[1] = ToolTurn /\ Msgs[2] = PlainTurn
    /\ Len(FunctionResponses) = 2
    /\ FunctionResponses[1].id = "x" /\ FunctionResponses[1].name = "f"
    /\ FunctionResponses[2].id = "y" /\ FunctionResponses[2].name = "y"

\* ------------------------------------------------------------------ C28
\* the part a segment is claimed to yield, if any
ClaimedParts(b) ==
    CASE b.type = "text" -> IF RealText(b.text) THEN <<PartTag(GeminiText(b.text))>> ELSE <<>>
      [] b.type = "tool_use" -> <<SegmentTag(b)>>
      [] b.type = "tool_result" -> <<SegmentTag(b)>>
      [] OTHER -> <<>>

ClaimedTurn(msg) ==
    Flatten([k \in 1..Len(Segments(msg)) |-> ClaimedParts(Segments(msg)[k])])

\* the function-call parts have no arguments exactly when those of their
\* tool_use segment do not parse
ArgsWhenParsed ==
    LET uses == SelectSeq(AllSegments, LAMBDA b : b.type = "tool_use")
        calls == SelectSeq(AllParts, LAMBDA p : p.kind = "functionCall")
    IN /\ Len(calls) = Len(uses)
       /\ \A k \in 1..Len(uses) :
             /\ calls[k].name = uses[k].name /\ calls[k].id = uses[k].id
             /\ (calls[k].args = Nil) <=> (uses[k].input # "object")

\* C28: whatever the form of a message's content, plain string or segment
\* list, its text yields a text part exactly when it is neither empty nor
\* "(no content)"; thinking, redacted_thinking and image segments yield
\* nothing; every tool_use yields one function-call part, without arguments
\* when its input does not parse.
C28_PartsPerSegment ==
    Transformed =>
        /\ ArgsWhenParsed
        /\ LET claimed == SelectSeq([i \in 1..Len(Msgs) |-> ClaimedTurn(Msgs[i])],
                                    LAMBDA t : t # <<>>)
           IN /\ Len(contents.items) = Len(claimed)
              /\ \A j \in 1..Len(claimed) :
                    [k \in 1..Len(contents.items[j].parts) |->
                        PartTag(contents.items[j].parts[k])] = claimed[j]

\* ------------------------------------------------------------------ C29
\* the POSTs in flight are those of the requests waiting for the backend
InFlightPosts == \A r \in Requests : (sent[r] # NoCall) <=> (pc[r] = "wait")

\* with an API key: no GetAccessToken, no refresh, no token handed out; the
\* POST has the key in its URL, no Authorization header and the flat body
KeyModeShape ==
    geminiAPIKey # "" =>
        /\ tmMu = 0
        /\ \A r \in Requests :
              /\ pc[r] \notin {"get_token", "refresh", "posting"}
              /\ via[r] = "none" /\ rt[r] = NoCred /\ tok[r] = EmptyToken
              /\ sent[r] # NoCall =>
                    /\ sent[r].url.key = geminiAPIKey
                    /\ sent[r].auth = <<>>
                    /\ sent[r].body.shape = "flat"
                    /\ DOMAIN sent[r].body = {"shape", "contents", "tools"}

\* without one: the POST has no key in its URL, the header "Bearer <token>"
\* with the token GetAccessToken returned, and the wrapped body with model,
\* project and the request identifier made for this POST
OAuthModeShape ==
    geminiAPIKey = "" =>
        \A r \in Requests :
            sent[r] # NoCall =>
                /\ sent[r].url.key = ""
                /\ sent[r].auth = <<"Bearer ", tok[r].val>>
                /\ sent[r].body.shape = "wrapped"
                /\ sent[r].body.model = WebSearchModel
                /\ sent[r].body.project # ""
                /\ sent[r].body.project \in
                      {creds[i].ProjectID : i \in DOMAIN creds} \cup {generateProjectID}
                /\ sent[r].body.requestId = <<"agent-", r, ncalls[r]>>

\* C29: the mode never changes in a process.  With an API key no attempt
\* calls GetAccessToken or refreshes, and the POST carries the key as query
\* parameter, no bearer header and the flat contents+tools envelope; without
\* one every POST carries "Bearer <token>" and the wrapped envelope with
\* model, project and a request identifier of its own.
C29_ModesExclusive ==
    /\ [](InFlightPosts /\ KeyModeShape /\ OAuthModeShape)
    /\ [][geminiAPIKey' = geminiAPIKey]_vars

\* with an API key, the POST of the first attempt is in flight: key in the
\* URL, no Authorization header, flat body, and no token was asked for
C29_Witness ==
    /\ geminiAPIKey = "key"
    /\ pc[1] = "wait"
    /\ ncalls[1] = 1
    /\ sent[1].url.key = "key"
    /\ sent[1].auth = <<>>
    /\ sent[1].body = buildGeminiAPIRequest
    /\ tok[1] = EmptyToken
    /\ accessToken = EmptyCache

\* ------------------------------------------------------------------ C30
\* no two entries hold the same refresh secret
SecretsDistinct ==
    \A i, j \in DOMAIN creds :
        creds[i].RefreshToken = creds[j].RefreshToken => i = j

\* a LoadFromFile of a secret the store holds returns nil and changes nothing
DuplicateLoadIsNoOp ==
    ( /\ loadErr.kind = "loading"
      /\ loadErr'.kind = "returned"
      /\ \E i \in DOMAIN creds : creds[i].RefreshToken = loadErr.refreshToken )
    => /\ loadErr'.err = "nil"
       /\ entries' = entries
       /\ creds' = creds
       /\ currentIndex' = currentIndex

\* C30: LoadFromFile of a credential whose refresh secret the store already
\* holds returns no error and leaves the entries, with paths, projects,
\* failure counters and timestamps, their number and the current index as
\* they were; no two entries ever hold the same refresh secret.
C30_DuplicateLoad == []SecretsDistinct /\ [][DuplicateLoadIsNoOp]_vars

\* a file was loaded, without error, whose secret is that of an entry loaded
\* from another file; that entry has its failure count and timestamp
C30_Witness ==
    /\ loadErr.kind = "returned" /\ loadErr.err = "nil"
    /\ Cardinality(DOMAIN creds) = 2
    /\ \E i \in DOMAIN creds :
          /\ creds[i].RefreshToken = files[loadErr.path].refresh_token
          /\ creds[i].FilePath # loadErr.path
          /\ entries[i].FailCount > 0
          /\ entries[i].LastFail = StartTime

\* ------------------------------------------------------------------ C31
\* C31, as claimed: the attempt of request r was made with the token of
\* credential tok[r].cred; the mark made after its failure and the reset made
\* after its success change no entry but that credential's, under every
\* interleaving.
C31_StepRule ==
    \A r \in Requests :
        ( /\ tok[r].cred # NoCred
          /\ \/ pc[r] = "mark_failed" /\ Moves(r)
             \/ Answered(r) /\ resp[r].kind = "ok" )
        => \A i \in DOMAIN entries \ {tok[r].cred} : entries'[i] = entries[i]

C31_MarkAndResetHitUsedCredential == [][C31_StepRule]_vars

\* ------------------------------------------------------------------ C32
\* C32, as claimed: a token GetAccessToken returns, from the cache (fast path
\* or re-check) or from the refresh it waited for, was obtained with the
\* refresh secret of the credential that is current when it is returned; once
\* the store has rotated away from a credential, no token of that credential
\* is handed to any request.
C32_StepRule ==
    \A r \in Requests :
        (TokenReturned(r) /\ tok'[r].val # "") => tok'[r].cred = currentIndex'

C32_TokenOfCurrentCredential == [][C32_StepRule]_vars

\* ------------------------------------------------------------------ C33
\* C33, as claimed: the POST of an attempt made with the token of credential
\* c carries the project of credential c, under every interleaving.
C33_TokenAndProjectOfOneCredential ==
    \A r \in Requests :
        (sent[r] # NoCall /\ geminiAPIKey = "" /\ tok[r].cred # NoCred) =>
            /\ sent[r].auth = <<"Bearer ", tok[r].val>>
            /\ sent[r].body.project = creds[tok[r].cred].ProjectID

\* ------------------------------------------------------------------ C34
\* C34, as claimed: a token GetAccessToken returns with a nil error is not
\* empty, and a refresh never stores an empty token in the cache.
C34_StepRule ==
    \A r \in Requests :
        /\ TokenReturned(r) => tok'[r].val # ""
        /\ (pc[r] = "posting" /\ Moves(r) /\ accessToken' # accessToken)
               => accessToken'.val # ""

C34_NoEmptyTokenWithNilError == [][C34_StepRule]_vars

\* ------------------------------------------------------------------ C35
\* a step of r's MarkCurrentFailed call that writes to the store
MarkStep(r) ==
    \/ pc[r] = "s_idle" /\ pc'[r] = "s_scan"
    \/ pc[r] = "s_scan" /\ currentIndex' # currentIndex

\* at the return of a call: what it changed since it took the lock
C35_CallEffect ==
    \A r \in Requests : pc[r] = "s_ret" =>
        /\ ~ret[r] => currentIndex = pre[r].idx
        /\ DOMAIN entries = DOMAIN pre[r].entries
        /\ \A j \in DOMAIN entries \ {pre[r].idx} : entries[j] = pre[r].entries[j]

\* no step of a call touches a refresh secret, a project identifier, a file
\* path, the order of the entries or the token cache
C35_StepRule ==
    \A r \in Requests : MarkStep(r) =>
        /\ creds' = creds
        /\ DOMAIN entries' = DOMAIN entries
        /\ \A j \in DOMAIN entries \ {startIndex'[r]} : entries'[j] = entries[j]
        /\ accessToken' = accessToken /\ expiry' = expiry

\* C35: when MarkCurrentFailed returns false the current index is the one
\* before the call and only the failed entry's FailCount and LastFail changed;
\* when it returns true only these and the current index changed; no call
\* changes the refresh secret, project identifier or order of any entry.
C35_FrameOfMarkCurrentFailed == []C35_CallEffect /\ [][C35_StepRule]_vars

\* a call on a ring of three returns false: the scan went around the ring and
\* the current index is back where it was, the failed entry marked once more
C35_Witness ==
    \E r \in Requests :
        /\ pc[r] = "s_ret" /\ ~ret[r]
        /\ Cardinality(DOMAIN entries) = 3
        /\ currentIndex = pre[r].idx
        /\ entries[currentIndex].FailCount = pre[r].entries[currentIndex].FailCount + 1

\* ------------------------------------------------------------------ C36
\* the refresh secrets the store holds
Secrets == {creds[i].RefreshToken : i \in DOMAIN creds}

\* a store with an entry has its current index on one of its entries
C36_IndexInRange ==
    /\ DOMAIN entries = 0..(Count - 1)
    /\ DOMAIN creds = DOMAIN entries
    /\ Count > 0 => (0 <= currentIndex /\ currentIndex < Count)

\* no step removes an entry or a secret; only the append of a load adds one
C36_StepRule ==
    /\ Cardinality(DOMAIN entries') >= Count
    /\ Secrets \subseteq {creds'[i].RefreshToken : i \in DOMAIN creds'}
    /\ loadErr.kind # "loading" =>
          {creds'[i].RefreshToken : i \in DOMAIN creds'} = Secrets

\* C36: in every reachable state of a store with at least one entry the
\* current index is at least 0 and below the number of entries; entries are
\* never removed, so Count never decreases; outside the append of a load the
\* set of refresh secrets in the store never changes.
C36_StoreInvariants == []C36_IndexInRange /\ [][C36_StepRule]_vars

\* two credentials are loaded, the first has failed and the store has rotated
\* to the last entry; no load is under way
C36_Witness ==
    /\ Count = 2
    /\ currentIndex = Count - 1
    /\ entries[0].FailCount > 0
    /\ loadErr.kind = "returned"
    /\ Cardinality(Secrets) = 2

\* ------------------------------------------------------------------ C37
\* ResolveURL has returned in goroutine k of request r, for a redirect URL
ReturnedFor(r, k) ==
    /\ resolving[r].kind # "none"
    /\ k \in 1..Len(resolving[r].urls)
    /\ resolving[r].g[k] = "done"
    /\ isVertexRedirectURL(resolving[r].urls[k])

\* no cache entry is overwritten with a different value
C37_StepRule == \A u \in DOMAIN cache : u \in DOMAIN cache' /\ cache'[u] = cache[u]

\* the ResolveURL calls that have returned for one redirect URL returned the
\* same value
C37_SameAnswer ==
    \A r1, r2 \in Requests :
        \A k1 \in 1..(maxParallelResolves + MaxBeyond),
           k2 \in 1..(maxParallelResolves + MaxBeyond) :
            ( /\ ReturnedFor(r1, k1) /\ ReturnedFor(r2, k2)
              /\ resolving[r1].urls[k1] = resolving[r2].urls[k2] )
            => resolving[r1].result[k1] = resolving[r2].result[k2]

\* C37, as claimed: once ResolveURL has returned v for a redirect URL, every
\* later ResolveURL of that URL returns v, and a cache entry is never
\* overwritten with a different value, also when two requests resolve the
\* same uncached URL at once and only one resolution succeeds.
C37_CacheEntryStable == []C37_SameAnswer /\ [][C37_StepRule]_vars

\* ------------------------------------------------------------------ C38
\* the URL a grounding chunk ends up with: where its redirect link leads when
\* the network says so, else its own uri
FinalUrl(chunk) ==
    IF chunk.uri = Redirect /\ chunk.target # <<>> THEN chunk.target ELSE chunk.uri

\* C38, as claimed: the citation built from a support whose first chunk index
\* is i carries the URL (after resolution) and the title of grounding chunk i
\* of the backend response, also when a chunk with an index below i has no
\* web sub-object.
C38_CitationOfChunk ==
    reply # NoCall =>
      LET cited == CitableSupports(gresp)
          chunks == gresp.chunks.items
      IN /\ Len(Emitted) = Len(cited)
         /\ \A k \in 1..Len(cited) :
               LET i == cited[k].indices[1] IN
               /\ i + 1 \in 1..Len(chunks)
               /\ chunks[i + 1].web
               /\ Emitted[k].url = FinalUrl(chunks[i + 1])
               /\ Emitted[k].title = chunks[i + 1].title

\* ------------------------------------------------------------------ C39
\* how far the scan of r is from where it started, in ring order
ScanDistance(r, idx) == (idx - startIndex[r] + Count) % Count

\* a turn of the scan loop moves one entry on; it ends the call when it is
\* back at the start, so no entry is examined twice; the clock stands still
C39_ScanRule ==
    \A r \in Requests :
        (pc[r] = "s_scan" /\ (currentIndex' # currentIndex \/ Moves(r))) =>
            /\ currentIndex' = (currentIndex + 1) % Count
            /\ now' = now
            /\ IF currentIndex' = startIndex[r]
                 THEN pc'[r] = "s_ret"
                 ELSE ScanDistance(r, currentIndex') = ScanDistance(r, currentIndex) + 1

\* C39: MarkCurrentFailed terminates after examining each entry of the ring
\* at most once and without waiting for a cooldown to expire; ExecuteWebSearch
\* returns, with success or an error, after at most maxRetries + 1 attempts,
\* also when every credential keeps failing and all are cooling down.
C39_Terminates ==
    /\ [][C39_ScanRule]_vars
    /\ [](\A r \in Requests : attempt[r] <= maxRetries + 1 /\ ncalls[r] <= maxRetries + 1)
    /\ \A r \in Requests : (pc[r] = "s_scan") ~> (pc[r] = "s_ret")
    /\ \A r \in Requests : (pc[r] \notin {"off", "done"}) ~> (pc[r] = "done")

\* the call has returned "all auth tokens failed": both credentials failed in
\* this call, both are cooling down and the clock never advanced
C39_Witness ==
    \E r \in Requests :
        /\ pc[r] = "done"
        /\ outcome[r].kind = "err" /\ outcome[r].why = "all_failed"
        /\ Count = 2
        /\ \A j \in DOMAIN entries : Cooling(entries[j], now)
        /\ now = StartTime

====
